---- MODULE Spec2Model ----
(***************************************************************************)
(* A model of the owlrs narrative engine: the Multiverse entity store      *)
(* (narrative_core.rs), the appraisal engine (emotional_system.rs), the    *)
(* invariant validators (properties.rs) and the narrative action           *)
(* interpreter (generators.rs).                                            *)
(*                                                                         *)
(* Ids (TimelineId, CharacterId, MemoryId, EventId) are naturals.  A       *)
(* HashMap is a function whose DOMAIN is its key set, a HashSet a set, a   *)
(* Vec a sequence, an Option the empty or one-element sequence.  f64       *)
(* values are fixed-point integers in units of 1/Scale.  Display strings   *)
(* (Character.name, Event.description) and Memory.fidelity take no part    *)
(* in any decision of the code and are left out of the records.            *)
(***************************************************************************)
EXTENDS Integers, Sequences, FiniteSets, TLC

VARIABLES
    mv,        \* the Multiverse
    last,      \* the last call made on it: [op, arg, ret]
    panicked   \* TRUE once a call has aborted (a Rust panic)

vars == <<mv, last, panicked>>

---------------------------------------------------------------------------
(* Option, HashMap *)

None == << >>
Some(x) == << x >>
IsSome(o) == Len(o) = 1
Unwrap(o) == o[1]

EmptyMap == << >>
MapPut(f, k, v) == [x \in (DOMAIN f) \cup {k} |-> IF x = k THEN v ELSE f[x]]

---------------------------------------------------------------------------
(* emotional_system.rs *)

\* 1.0 as a fixed-point integer
Scale == 1000
Half == Scale \div 2

AbsInt(x) == IF x < 0 THEN -x ELSE x
\* a * b on fixed-point values (truncated toward zero; the inputs of the
\* model are chosen so that every product is exact)
FMul(a, b) ==
    LET p == (AbsInt(a) * AbsInt(b)) \div Scale
    IN  IF (a < 0) = (b < 0) THEN p ELSE -p
\* fault-injected variant: no lower limit
Clamp_upper_only(x) == IF x > Scale THEN Scale ELSE x
Clamp(x) == IF x < -Scale THEN -Scale ELSE IF x > Scale THEN Scale ELSE x

EmotionType ==
    {"Distress", "Fear", "Hope", "Joy", "Satisfaction", "FearConfirmed",
     "Disappointment", "Relief", "HappyFor", "Resentment", "Pity", "Gloating",
     "Gratitude", "Anger", "Gratification", "Remorse"}

\* Pleasure / Arousal / Dominance per type, in hundredths
pad_values(t) ==
    CASE t = "Distress"       -> <<-61, 28, -36>>
      [] t = "Fear"           -> <<-64, 60, -43>>
      [] t = "Hope"           -> <<51, 23, 14>>
      [] t = "Joy"            -> <<76, 48, 35>>
      [] t = "Satisfaction"   -> <<87, 20, 62>>
      [] t = "FearConfirmed"  -> <<-61, 6, -32>>
      [] t = "Disappointment" -> <<-61, -15, -29>>
      [] t = "Relief"         -> <<29, -19, -28>>
      [] t = "HappyFor"       -> <<64, 35, 25>>
      [] t = "Resentment"     -> <<-35, 35, 29>>
      [] t = "Pity"           -> <<-52, 2, -21>>
      [] t = "Gloating"       -> <<-45, 48, 42>>
      [] t = "Gratitude"      -> <<64, 16, -21>>
      [] t = "Anger"          -> <<-51, 59, 25>>
      [] t = "Gratification"  -> <<69, 57, 63>>
      [] t = "Remorse"        -> <<-57, 28, -34>>

GoalNew(name, utility, is_maintenance) ==
    [name |-> name, utility |-> utility, likelihood |-> Half,
     is_maintenance |-> is_maintenance]

EmotionalStateNew == [emotions |-> << >>, goals |-> EmptyMap, gain |-> Scale]

add_goal(es, goal) == [es EXCEPT !.goals = MapPut(@, goal.name, goal)]

\* fault-injected variant: every emission is pushed as a new entry
update_emotional_state_always_pushes(es, et, intensity) ==
    [es EXCEPT !.emotions =
        Append(@, [emotion_type |-> et, intensity |-> intensity])]

update_emotional_state(es, et, intensity) ==
    LET hits == {i \in 1..Len(es.emotions) : es.emotions[i].emotion_type = et}
    IN  IF hits # {}
        THEN LET i == CHOOSE j \in hits : \A k \in hits : j <= k
             IN  [es EXCEPT !.emotions[i].intensity = @ + intensity]
        ELSE [es EXCEPT !.emotions =
                 Append(@, [emotion_type |-> et, intensity |-> intensity])]

\* fault-injected variant: only the upper extreme freezes a goal
static_calculate_delta_likelihood_upper_only(goal, congruence, likelihood, is_incremental) ==
    LET old == goal.likelihood
    IN  IF ~goal.is_maintenance /\ old >= Scale
        THEN [goal |-> goal, delta |-> 0]
        ELSE LET new == IF is_incremental
                        THEN Clamp(old + FMul(likelihood, congruence))
                        ELSE (FMul(congruence, likelihood) + Scale) \div 2
             IN  [goal |-> [goal EXCEPT !.likelihood = new], delta |-> new - old]

\* fault-injected variant: the incremental likelihood is not clamped
static_calculate_delta_likelihood_unclamped(goal, congruence, likelihood, is_incremental) ==
    LET old == goal.likelihood
    IN  IF ~goal.is_maintenance /\ (old >= Scale \/ old <= -Scale)
        THEN [goal |-> goal, delta |-> 0]
        ELSE LET new == IF is_incremental
                        THEN old + FMul(likelihood, congruence)
                        ELSE (FMul(congruence, likelihood) + Scale) \div 2
             IN  [goal |-> [goal EXCEPT !.likelihood = new], delta |-> new - old]

\* returns the goal as updated and the delta
static_calculate_delta_likelihood(goal, congruence, likelihood, is_incremental) ==
    LET old == goal.likelihood
    IN  IF ~goal.is_maintenance /\ (old >= Scale \/ old <= -Scale)
        THEN [goal |-> goal, delta |-> 0]
        ELSE LET new == IF is_incremental
                        THEN Clamp(old + FMul(likelihood, congruence))
                        ELSE (FMul(congruence, likelihood) + Scale) \div 2
             IN  [goal |-> [goal EXCEPT !.likelihood = new], delta |-> new - old]

\* fault-injected variant: the secondary emotions use <= 0.5 and >= 0.5
emotion_types_inclusive(utility, delta, likelihood) ==
    LET positive == IF utility >= 0 THEN delta >= 0 ELSE delta < 0
    IN  IF likelihood > 0 /\ likelihood < Scale
        THEN IF positive THEN <<"Hope">> ELSE <<"Fear">>
        ELSE IF likelihood = Scale
        THEN IF utility >= 0
             THEN (IF delta <= Half THEN <<"Satisfaction">> ELSE << >>) \o <<"Joy">>
             ELSE (IF delta <= Half THEN <<"FearConfirmed">> ELSE << >>) \o <<"Distress">>
        ELSE IF likelihood = 0
        THEN IF utility >= 0
             THEN (IF delta >= Half THEN <<"Disappointment">> ELSE << >>) \o <<"Distress">>
             ELSE (IF delta >= Half THEN <<"Relief">> ELSE << >>) \o <<"Joy">>
        ELSE << >>

\* the emotion types one update emits, in the order they are pushed
emotion_types(utility, delta, likelihood) ==
    LET positive == IF utility >= 0 THEN delta >= 0 ELSE delta < 0
    IN  IF likelihood > 0 /\ likelihood < Scale
        THEN IF positive THEN <<"Hope">> ELSE <<"Fear">>
        ELSE IF likelihood = Scale
        THEN IF utility >= 0
             THEN (IF delta < Half THEN <<"Satisfaction">> ELSE << >>) \o <<"Joy">>
             ELSE (IF delta < Half THEN <<"FearConfirmed">> ELSE << >>) \o <<"Distress">>
        ELSE IF likelihood = 0
        THEN IF utility >= 0
             THEN (IF delta > Half THEN <<"Disappointment">> ELSE << >>) \o <<"Distress">>
             ELSE (IF delta > Half THEN <<"Relief">> ELSE << >>) \o <<"Joy">>
        ELSE << >>

RECURSIVE EmitAll(_, _, _, _)
EmitAll(es, types, intensity, i) ==
    IF i > Len(types) THEN es
    ELSE EmitAll(update_emotional_state(es, types[i], intensity), types, intensity, i + 1)

evaluate_internal_emotion(es, utility, delta, likelihood) ==
    LET intensity == AbsInt(FMul(utility, delta))
    IN  IF intensity > 0
        THEN EmitAll(es, emotion_types(utility, delta, likelihood), intensity, 1)
        ELSE es

\* fault-injected variant: the congruences are paired with the known goal
\* names only, so an unknown name shifts the pairing
RECURSIVE AppraiseGoals_pairs_known(_, _, _, _)
AppraiseGoals_pairs_known(es, belief, i, updates) ==
    IF i > Len(belief.affected_goal_names)
    THEN [es |-> es, updates |-> updates, panic |-> FALSE]
    ELSE LET name == belief.affected_goal_names[i]
         IN  IF name \notin DOMAIN es.goals
             THEN AppraiseGoals_pairs_known(es, belief, i + 1, updates)
             ELSE LET goal == es.goals[name]
                      r == static_calculate_delta_likelihood(
                               goal, belief.goal_congruences[Len(updates) + 1],
                               belief.likelihood, belief.is_incremental)
                  IN  AppraiseGoals_pairs_known(
                          [es EXCEPT !.goals[name] = r.goal], belief, i + 1,
                          Append(updates, <<goal.utility, r.delta, r.goal.likelihood>>))

\* first loop of appraise: goal_congruences[i] is an unchecked index, which
\* panics when the list is shorter than the position of a known goal name
RECURSIVE AppraiseGoals(_, _, _, _)
AppraiseGoals(es, belief, i, updates) ==
    IF i > Len(belief.affected_goal_names)
    THEN [es |-> es, updates |-> updates, panic |-> FALSE]
    ELSE LET name == belief.affected_goal_names[i]
         IN  IF name \notin DOMAIN es.goals
             THEN AppraiseGoals(es, belief, i + 1, updates)
             ELSE IF i > Len(belief.goal_congruences)
             THEN [es |-> es, updates |-> updates, panic |-> TRUE]
             ELSE LET goal == es.goals[name]
                      r == static_calculate_delta_likelihood(
                               goal, belief.goal_congruences[i],
                               belief.likelihood, belief.is_incremental)
                  IN  AppraiseGoals(
                          [es EXCEPT !.goals[name] = r.goal], belief, i + 1,
                          Append(updates, <<goal.utility, r.delta, r.goal.likelihood>>))

RECURSIVE EvaluateAll(_, _, _)
EvaluateAll(es, updates, i) ==
    IF i > Len(updates) THEN es
    ELSE EvaluateAll(
             evaluate_internal_emotion(es, updates[i][1], updates[i][2], updates[i][3]),
             updates, i + 1)

\* returns [es, panic]
appraise(es, belief) ==
    LET r == AppraiseGoals(es, belief, 1, << >>)
    IN  IF r.panic THEN [es |-> r.es, panic |-> TRUE]
        ELSE [es |-> EvaluateAll(r.es, r.updates, 1), panic |-> FALSE]

DecayThreshold == 1

\* fault-injected variant: an entry exactly at the threshold is kept
RECURSIVE RetainDecayed_inclusive(_, _, _)
RetainDecayed_inclusive(emotions, factor, i) ==
    IF i > Len(emotions) THEN << >>
    ELSE LET e == [emotions[i] EXCEPT !.intensity = FMul(@, factor)]
         IN  (IF e.intensity >= DecayThreshold THEN <<e>> ELSE << >>)
             \o RetainDecayed_inclusive(emotions, factor, i + 1)

RECURSIVE RetainDecayed(_, _, _)
RetainDecayed(emotions, factor, i) ==
    IF i > Len(emotions) THEN << >>
    ELSE LET e == [emotions[i] EXCEPT !.intensity = FMul(@, factor)]
         IN  (IF e.intensity > DecayThreshold THEN <<e>> ELSE << >>)
             \o RetainDecayed(emotions, factor, i + 1)

decay(es, factor) == [es EXCEPT !.emotions = RetainDecayed(@, factor, 1)]

RECURSIVE AxisSum(_, _, _)
AxisSum(emotions, axis, i) ==
    IF i > Len(emotions) THEN 0
    ELSE emotions[i].intensity * pad_values(emotions[i].emotion_type)[axis]
         + AxisSum(emotions, axis, i + 1)

\* one squashed axis as the fraction num/den; x = AxisSum is in units of
\* 1/(100*Scale) and gain in units of 1/Scale
PadUnit == 100 * Scale * Scale
\* fault-injected variant: the denominator of the non-negative branch has
\* the sign of the negative one
squash_sign_slip(gain, x) ==
    IF x >= 0 THEN [num |-> gain * x, den |-> gain * x - PadUnit]
    ELSE [num |-> -gain * x, den |-> gain * x - PadUnit]

squash(gain, x) ==
    IF x >= 0 THEN [num |-> gain * x, den |-> gain * x + PadUnit]
    ELSE [num |-> -gain * x, den |-> gain * x - PadUnit]

get_pad(es) == [axis \in 1..3 |-> squash(es.gain, AxisSum(es.emotions, axis, 1))]

---------------------------------------------------------------------------
(* narrative_core.rs: the entity store *)

RelationshipState == {"Hostile", "Distrustful", "Neutral", "Friendly", "Allied"}
Ability ==
    {"TimelinePerception", "Precognition", "MemoryImmunity", "LoopMemory",
     "CausalityHacking"}

root_timeline == 0

MultiverseNew ==
    [timelines |-> (root_timeline :>
         [id |-> root_timeline, parent |-> None, divergence_event |-> None,
          events |-> << >>, characters |-> {}, causality_stable |-> TRUE]),
     characters |-> EmptyMap,
     memories |-> EmptyMap,
     events |-> EmptyMap,
     next_timeline_id |-> 1,
     next_character_id |-> 0,
     next_memory_id |-> 0,
     next_event_id |-> 0]

\* fault-injected variant: the counter is not advanced, so the next call reuses the id
create_character_reuses_id(m, timeline) ==
    LET id == m.next_character_id
        character ==
            [id |-> id, current_timeline |-> timeline, native_timeline |-> timeline,
             memories |-> {}, knowledge_flags |-> {}, alive |-> TRUE,
             abilities |-> {}, relationships |-> EmptyMap,
             emotional_state |-> EmotionalStateNew]
    IN  [m EXCEPT
            !.characters = MapPut(@, id, character),
            !.timelines =
                IF timeline \in DOMAIN @
                THEN [@ EXCEPT ![timeline].characters = @ \cup {id}]
                ELSE @]

\* fault-injected variant: the character also joins the branches of the
\* timeline it is created in
create_character_joins_branches(m, timeline) ==
    LET id == m.next_character_id
        r == create_character_reuses_id(m, timeline)
    IN  [r EXCEPT
            !.next_character_id = id + 1,
            !.timelines =
                [t \in DOMAIN @ |->
                    IF @[t].parent = Some(timeline) /\ timeline \in DOMAIN @
                    THEN [@[t] EXCEPT !.characters = @ \cup {id}]
                    ELSE @[t]]]

create_character(m, timeline) ==
    LET id == m.next_character_id
        character ==
            [id |-> id, current_timeline |-> timeline, native_timeline |-> timeline,
             memories |-> {}, knowledge_flags |-> {}, alive |-> TRUE,
             abilities |-> {}, relationships |-> EmptyMap,
             emotional_state |-> EmotionalStateNew]
    IN  [m EXCEPT
            !.next_character_id = id + 1,
            !.characters = MapPut(@, id, character),
            !.timelines =
                IF timeline \in DOMAIN @
                THEN [@ EXCEPT ![timeline].characters = @ \cup {id}]
                ELSE @]

\* fault-injected variant: the branch inherits the parent's causality_stable flag
create_timeline_branch_inherits_flag(m, parent, divergence_event) ==
    LET id == m.next_timeline_id
        timeline ==
            [id |-> id, parent |-> Some(parent),
             divergence_event |-> Some(divergence_event),
             events |-> << >>,
             characters |-> IF parent \in DOMAIN m.timelines
                            THEN m.timelines[parent].characters ELSE {},
             causality_stable |-> IF parent \in DOMAIN m.timelines
                                  THEN m.timelines[parent].causality_stable
                                  ELSE TRUE]
    IN  [m EXCEPT
            !.next_timeline_id = id + 1,
            !.timelines = MapPut(@, id, timeline)]

\* fault-injected variant: branching marks the parent timeline unstable
create_timeline_branch_marks_parent(m, parent, divergence_event) ==
    LET r == create_timeline_branch_inherits_flag(m, parent, divergence_event)
    IN  [r EXCEPT
            !.timelines =
                [t \in DOMAIN @ |->
                    [@[t] EXCEPT !.causality_stable = t # parent]]]

create_timeline_branch(m, parent, divergence_event) ==
    LET id == m.next_timeline_id
        parent_characters ==
            IF parent \in DOMAIN m.timelines
            THEN m.timelines[parent].characters ELSE {}
        timeline ==
            [id |-> id, parent |-> Some(parent),
             divergence_event |-> Some(divergence_event),
             events |-> << >>, characters |-> parent_characters,
             causality_stable |-> TRUE]
    IN  [m EXCEPT
            !.next_timeline_id = id + 1,
            !.timelines = MapPut(@, id, timeline)]

create_witnessed_memory(m, event, timeline, character) ==
    LET id == m.next_memory_id
        memory ==
            [id |-> id, event |-> event, source_timeline |-> timeline,
             provenance |-> [kind |-> "Witnessed", character |-> character]]
    IN  [m EXCEPT
            !.next_memory_id = id + 1,
            !.memories = MapPut(@, id, memory)]

\* the arms of the match in apply_event_effects
HasCharacter(m, c) == c \in DOMAIN m.characters

effect_CharacterDeath(m, character) ==
    IF HasCharacter(m, character)
    THEN [m EXCEPT !.characters[character].alive = FALSE] ELSE m

\* fault-injected variant: a resurrection leaves the alive flag as it is
effect_CharacterResurrection_ignored(m, character) == m

effect_CharacterResurrection(m, character) ==
    IF HasCharacter(m, character)
    THEN [m EXCEPT !.characters[character].alive = TRUE] ELSE m

\* fault-injected variant: only character1's entry is written
effect_RelationshipChange_one_way(m, character1, character2, new_state) ==
    IF HasCharacter(m, character1)
    THEN [m EXCEPT !.characters[character1].relationships =
             MapPut(@, character2, new_state)]
    ELSE m

effect_RelationshipChange(m, character1, character2, new_state) ==
    LET m1 == IF HasCharacter(m, character1)
              THEN [m EXCEPT !.characters[character1].relationships =
                       MapPut(@, character2, new_state)]
              ELSE m
    IN  IF HasCharacter(m1, character2)
        THEN [m1 EXCEPT !.characters[character2].relationships =
                 MapPut(@, character1, new_state)]
        ELSE m1

\* fault-injected variant: the flag replaces the set instead of joining it
effect_KnowledgeGained_replaces(m, character, flag) ==
    IF HasCharacter(m, character)
    THEN [m EXCEPT !.characters[character].knowledge_flags = {flag}]
    ELSE m

effect_KnowledgeGained(m, character, flag) ==
    IF HasCharacter(m, character)
    THEN [m EXCEPT !.characters[character].knowledge_flags = @ \cup {flag}]
    ELSE m

\* fault-injected variant: every character receives the memory
effect_MemoryTransfer_to_all(m, memory, to) ==
    IF HasCharacter(m, to)
    THEN [m EXCEPT !.characters =
             [c \in DOMAIN @ |-> [@[c] EXCEPT !.memories = @ \cup {memory}]]]
    ELSE m

\* `from` is ignored by the code (MemoryTransfer { memory, to, .. })
effect_MemoryTransfer(m, memory, to) ==
    IF HasCharacter(m, to)
    THEN [m EXCEPT !.characters[to].memories = @ \cup {memory}]
    ELSE m

effect_AddGoal(m, character, goal) ==
    IF HasCharacter(m, character)
    THEN [m EXCEPT !.characters[character].emotional_state = add_goal(@, goal)]
    ELSE m

\* returns [m, panic]
effect_AppraisalTrigger(m, character, belief) ==
    IF HasCharacter(m, character)
    THEN LET r == appraise(m.characters[character].emotional_state, belief)
         IN  [m |-> [m EXCEPT !.characters[character].emotional_state = r.es],
              panic |-> r.panic]
    ELSE [m |-> m, panic |-> FALSE]

\* fault-injected variant: a TimelineBranch effect creates the timeline it names
ApplyEffect_branches(m, effect) ==
    LET ok(x) == [m |-> x, panic |-> FALSE]
        timeline ==
            [id |-> effect.new_timeline, parent |-> None, divergence_event |-> None,
             events |-> << >>, characters |-> {}, causality_stable |-> TRUE]
    IN  CASE effect.kind = "CharacterDeath" ->
                ok(effect_CharacterDeath(m, effect.character))
          [] effect.kind = "CharacterResurrection" ->
                ok(effect_CharacterResurrection(m, effect.character))
          [] effect.kind = "RelationshipChange" ->
                ok(effect_RelationshipChange(m, effect.character1,
                                             effect.character2, effect.new_state))
          [] effect.kind = "KnowledgeGained" ->
                ok(effect_KnowledgeGained(m, effect.character, effect.flag))
          [] effect.kind = "MemoryTransfer" ->
                ok(effect_MemoryTransfer(m, effect.memory, effect.to))
          [] effect.kind = "TimelineBranch" ->
                ok([m EXCEPT !.timelines = MapPut(@, effect.new_timeline, timeline)])
          [] effect.kind = "AppraisalTrigger" ->
                effect_AppraisalTrigger(m, effect.character, effect.belief)
          [] effect.kind = "AddGoal" ->
                ok(effect_AddGoal(m, effect.character, effect.goal))

\* one iteration of the loop; returns [m, panic]
ApplyEffect(m, effect) ==
    LET ok(x) == [m |-> x, panic |-> FALSE]
    IN  CASE effect.kind = "CharacterDeath" ->
                ok(effect_CharacterDeath(m, effect.character))
          [] effect.kind = "CharacterResurrection" ->
                ok(effect_CharacterResurrection(m, effect.character))
          [] effect.kind = "RelationshipChange" ->
                ok(effect_RelationshipChange(m, effect.character1,
                                             effect.character2, effect.new_state))
          [] effect.kind = "KnowledgeGained" ->
                ok(effect_KnowledgeGained(m, effect.character, effect.flag))
          [] effect.kind = "MemoryTransfer" ->
                ok(effect_MemoryTransfer(m, effect.memory, effect.to))
          [] effect.kind = "TimelineBranch" -> ok(m)
          [] effect.kind = "AppraisalTrigger" ->
                effect_AppraisalTrigger(m, effect.character, effect.belief)
          [] effect.kind = "AddGoal" ->
                ok(effect_AddGoal(m, effect.character, effect.goal))

\* the state after the first n effects of the list (a panic stops the loop)
RECURSIVE ApplyEffects(_, _, _)
ApplyEffects(m, effects, n) ==
    IF n = 0 THEN [m |-> m, panic |-> FALSE]
    ELSE LET r == ApplyEffects(m, effects, n - 1)
         IN  IF r.panic THEN r ELSE ApplyEffect(r.m, effects[n])

\* fault-injected variant: an event without participants has no effect
apply_event_effects_needs_participants(m, event) ==
    IF event.participants = {}
    THEN [m |-> m, panic |-> FALSE]
    ELSE ApplyEffects(m, event.effects, Len(event.effects))

apply_event_effects(m, event) == ApplyEffects(m, event.effects, Len(event.effects))

\* fault-injected variant: the id is put at the front of the timeline's list
PushEvent_prepends(m, event) ==
    LET id == m.next_event_id
    IN  [m EXCEPT
            !.next_event_id = id + 1,
            !.timelines =
                IF event.timeline \in DOMAIN @
                THEN [@ EXCEPT ![event.timeline].events = <<id>> \o @]
                ELSE @]

\* the store with the fresh id counted and the id pushed to the timeline's list
PushEvent(m, event) ==
    LET id == m.next_event_id
    IN  [m EXCEPT
            !.next_event_id = id + 1,
            !.timelines =
                IF event.timeline \in DOMAIN @
                THEN [@ EXCEPT ![event.timeline].events = Append(@, id)]
                ELSE @]

\* fault-injected variant: an event on a missing timeline is stored without its effects
record_event_needs_timeline(m, event) ==
    LET id == m.next_event_id
        ev == [event EXCEPT !.id = id]
        r == IF ev.timeline \in DOMAIN m.timelines
             THEN apply_event_effects(PushEvent(m, ev), ev)
             ELSE [m |-> PushEvent(m, ev), panic |-> FALSE]
    IN  IF r.panic THEN r
        ELSE [m |-> [r.m EXCEPT !.events = MapPut(@, id, ev)], panic |-> FALSE]

\* returns [m, panic]; the id returned to the caller is m.next_event_id
record_event(m, event) ==
    LET id == m.next_event_id
        ev == [event EXCEPT !.id = id]
        r == apply_event_effects(PushEvent(m, ev), ev)
    IN  IF r.panic THEN r
        ELSE [m |-> [r.m EXCEPT !.events = MapPut(@, id, ev)], panic |-> FALSE]

\* fault-injected variant: a timeline the store lacks is never perceived
can_perceive_timeline_stored_only(m, character, timeline) ==
    IF character \in DOMAIN m.characters /\ timeline \in DOMAIN m.timelines
    THEN \/ m.characters[character].current_timeline = timeline
         \/ "TimelinePerception" \in m.characters[character].abilities
    ELSE FALSE

can_perceive_timeline(m, character, timeline) ==
    IF character \in DOMAIN m.characters
    THEN \/ m.characters[character].current_timeline = timeline
         \/ "TimelinePerception" \in m.characters[character].abilities
    ELSE FALSE

\* fault-injected variant: an owned id the store lacks counts as a memory
\* of the event
has_memory_of_event_absent_counts(m, character, event) ==
    IF character \in DOMAIN m.characters
    THEN \E memory_id \in m.characters[character].memories :
            IF memory_id \in DOMAIN m.memories
            THEN m.memories[memory_id].event = event
            ELSE TRUE
    ELSE FALSE

has_memory_of_event(m, character, event) ==
    IF character \in DOMAIN m.characters
    THEN \E memory_id \in m.characters[character].memories :
            IF memory_id \in DOMAIN m.memories
            THEN m.memories[memory_id].event = event
            ELSE FALSE
    ELSE FALSE

decay_emotions(m, decay_factor) ==
    [m EXCEPT !.characters =
        [c \in DOMAIN @ |-> [@[c] EXCEPT !.emotional_state = decay(@, decay_factor)]]]

---------------------------------------------------------------------------
(* properties.rs: the validators.  A Result is "Ok" or the name of the    *)
(* check that returned Err; the text of the message is not modelled.       *)

MapGet(f, k, default) == IF k \in DOMAIN f THEN f[k] ELSE default
MaxOf(S) == CHOOSE x \in S : \A y \in S : y <= x

\* fault-injected variant: the sources of a Compound memory are not looked up
prop_memory_consistency_no_sources(m) ==
    IF \E char_id \in DOMAIN m.characters :
          \E memory_id \in m.characters[char_id].memories :
             \/ memory_id \notin DOMAIN m.memories
             \/ LET memory == m.memories[memory_id]
                    p == memory.provenance
                IN  CASE p.kind = "Witnessed" ->
                            /\ memory.event \in DOMAIN m.events
                            /\ p.character \notin m.events[memory.event].participants
                      [] p.kind = "Traded" -> FALSE
                      [] p.kind = "Forged" -> p.forger = ""
                      [] p.kind = "Compound" -> FALSE
    THEN "memory_consistency" ELSE "Ok"

prop_memory_consistency(m) ==
    IF \E char_id \in DOMAIN m.characters :
          \E memory_id \in m.characters[char_id].memories :
             \/ memory_id \notin DOMAIN m.memories
             \/ LET memory == m.memories[memory_id]
                    p == memory.provenance
                IN  CASE p.kind = "Witnessed" ->
                            /\ memory.event \in DOMAIN m.events
                            /\ p.character \notin m.events[memory.event].participants
                      [] p.kind = "Traded" -> FALSE
                      [] p.kind = "Forged" -> p.forger = ""
                      [] p.kind = "Compound" ->
                            \E i \in 1..Len(p.sources) :
                                p.sources[i] \notin DOMAIN m.memories
    THEN "memory_consistency" ELSE "Ok"

\* fault-injected variant: the memory's source is compared with the
\* character's native timeline
prop_timeline_perception_native(m) ==
    IF \E char_id \in DOMAIN m.characters :
          \E memory_id \in m.characters[char_id].memories :
             \/ memory_id \notin DOMAIN m.memories
             \/ /\ m.memories[memory_id].source_timeline
                       # m.characters[char_id].native_timeline
                /\ "TimelinePerception" \notin m.characters[char_id].abilities
    THEN "timeline_perception" ELSE "Ok"

prop_timeline_perception(m) ==
    IF \E char_id \in DOMAIN m.characters :
          \E memory_id \in m.characters[char_id].memories :
             \/ memory_id \notin DOMAIN m.memories
             \/ /\ m.memories[memory_id].source_timeline
                       # m.characters[char_id].current_timeline
                /\ "TimelinePerception" \notin m.characters[char_id].abilities
    THEN "timeline_perception" ELSE "Ok"

prop_causality_justification(m) ==
    IF \E id \in DOMAIN m.events :
          LET event == m.events[id]
          IN  /\ IsSome(event.causality_violation)
              /\ \/ Unwrap(event.causality_violation).mechanism = ""
                 \/ /\ event.timeline \in DOMAIN m.timelines
                    /\ m.timelines[event.timeline].causality_stable
    THEN "causality_justification" ELSE "Ok"

\* the effects of the stored events of an event-id list, in replay order
RECURSIVE ReplayEffects(_, _, _)
ReplayEffects(m, event_ids, i) ==
    IF i > Len(event_ids) THEN << >>
    ELSE (IF event_ids[i] \in DOMAIN m.events
          THEN m.events[event_ids[i]].effects ELSE << >>)
         \o ReplayEffects(m, event_ids, i + 1)

\* relationship_history.get(&(a, b)).last(): the key is the ordered pair
\* (character1, character2) of the effect
LastRelationship(effects, a, b) ==
    LET hits == {j \in 1..Len(effects) :
                    /\ effects[j].kind = "RelationshipChange"
                    /\ effects[j].character1 = a
                    /\ effects[j].character2 = b}
    IN  IF hits = {} THEN None ELSE Some(effects[MaxOf(hits)].new_state)

prop_relationship_consistency(m) ==
    IF \E t \in DOMAIN m.timelines :
          LET effects == ReplayEffects(m, m.timelines[t].events, 1)
          IN  \E char_id \in m.timelines[t].characters :
                 /\ char_id \in DOMAIN m.characters
                 /\ \E other_id \in DOMAIN m.characters[char_id].relationships :
                       LET h == LastRelationship(effects, char_id, other_id)
                       IN  /\ IsSome(h)
                           /\ Unwrap(h) # m.characters[char_id].relationships[other_id]
    THEN "relationship_consistency" ELSE "Ok"

\* the second loop over one event: death / resurrection effects on the table
RECURSIVE ReplayLiveness(_, _, _)
ReplayLiveness(acc, effects, i) ==
    IF i > Len(effects) THEN acc
    ELSE LET e == effects[i]
         IN  IF e.kind = "CharacterDeath"
             THEN ReplayLiveness(
                      [acc EXCEPT !.alive = MapPut(@, e.character, FALSE)],
                      effects, i + 1)
             ELSE IF e.kind = "CharacterResurrection"
             THEN ReplayLiveness(
                      [alive |-> MapPut(acc.alive, e.character, TRUE),
                       err |-> acc.err \/ e.mechanism = ""],
                      effects, i + 1)
             ELSE ReplayLiveness(acc, effects, i + 1)

\* one timeline's events against its table; acc = [alive, err]
RECURSIVE ReplayTimeline(_, _, _, _)
ReplayTimeline(m, acc, event_ids, i) ==
    IF i > Len(event_ids) THEN acc
    ELSE IF event_ids[i] \notin DOMAIN m.events
    THEN ReplayTimeline(m, acc, event_ids, i + 1)
    ELSE LET event == m.events[event_ids[i]]
             dead_acts ==
                 \E participant \in event.participants :
                    /\ ~MapGet(acc.alive, participant, FALSE)
                    /\ ~\E j \in 1..Len(event.effects) :
                           /\ event.effects[j].kind = "CharacterResurrection"
                           /\ event.effects[j].character = participant
         IN  ReplayTimeline(
                 m,
                 ReplayLiveness([acc EXCEPT !.err = @ \/ dead_acts], event.effects, 1),
                 event_ids, i + 1)

\* character_alive_state after the timelines with id <= k, in ascending id
\* order; [state, err]
RECURSIVE AliveState(_, _)
AliveState(m, k) ==
    IF k < 0 THEN [state |-> EmptyMap, err |-> FALSE]
    ELSE LET before == AliveState(m, k - 1)
         IN  IF k \notin DOMAIN m.timelines THEN before
             ELSE LET timeline == m.timelines[k]
                      start ==
                          IF IsSome(timeline.parent)
                          THEN MapGet(before.state, Unwrap(timeline.parent), EmptyMap)
                          ELSE [c \in timeline.characters |-> TRUE]
                      r == ReplayTimeline(m, [alive |-> start, err |-> FALSE],
                                          timeline.events, 1)
                  IN  [state |-> MapPut(before.state, timeline.id, r.alive),
                       err |-> before.err \/ r.err]

prop_death_finality(m) ==
    LET r == AliveState(m, MaxOf(DOMAIN m.timelines \cup {0}))
    IN  IF \/ r.err
           \/ \E c \in DOMAIN m.characters :
                 LET character == m.characters[c]
                 IN  /\ character.current_timeline \in DOMAIN r.state
                     /\ character.alive
                           # MapGet(r.state[character.current_timeline],
                                    character.id, TRUE)
        THEN "death_finality" ELSE "Ok"

\* knowledge_granted[t][c]: None when no event of t granted c anything
KnowledgeGranted(m, t, c) ==
    LET effects == ReplayEffects(m, m.timelines[t].events, 1)
        hits == {j \in 1..Len(effects) :
                    /\ effects[j].kind = "KnowledgeGained"
                    /\ effects[j].character = c}
    IN  IF hits = {} THEN None ELSE Some({effects[j].flag : j \in hits})

\* fault-injected variant: a character without any grant on its timeline
\* is not examined
prop_knowledge_flags_skips_ungranted(m) ==
    IF \E c \in DOMAIN m.characters :
          LET character == m.characters[c]
          IN  /\ character.current_timeline \in DOMAIN m.timelines
              /\ LET g == KnowledgeGranted(m, character.current_timeline, character.id)
                 IN  IF IsSome(g)
                     THEN \E flag \in character.knowledge_flags : flag \notin Unwrap(g)
                     ELSE FALSE
    THEN "knowledge_flags" ELSE "Ok"

prop_knowledge_flags(m) ==
    IF \E c \in DOMAIN m.characters :
          LET character == m.characters[c]
          IN  /\ character.current_timeline \in DOMAIN m.timelines
              /\ LET g == KnowledgeGranted(m, character.current_timeline, character.id)
                 IN  IF IsSome(g)
                     THEN \E flag \in character.knowledge_flags : flag \notin Unwrap(g)
                     ELSE character.knowledge_flags # {}
    THEN "knowledge_flags" ELSE "Ok"

\* val < -1.0 || val > 1.0 on the fraction num/den; a zero denominator is
\* f64 infinity (out of range) or, for 0/0, NaN (every comparison false)
OutOfUnitRange(v) ==
    IF v.den > 0 THEN v.num < -v.den \/ v.num > v.den
    ELSE IF v.den < 0 THEN -v.num < v.den \/ -v.num > -v.den
    ELSE v.num # 0

prop_emotional_state_validity(m) ==
    IF \E c \in DOMAIN m.characters :
          \E axis \in 1..3 :
             OutOfUnitRange(get_pad(m.characters[c].emotional_state)[axis])
    THEN "emotional_state_validity" ELSE "Ok"

\* fault-injected variant: death finality runs before relationship
\* consistency
validate_all_properties_death_first(m) ==
    LET checks == <<prop_memory_consistency(m), prop_timeline_perception(m),
                    prop_causality_justification(m), prop_death_finality(m),
                    prop_relationship_consistency(m),
                    prop_knowledge_flags(m), prop_emotional_state_validity(m)>>
        failed == {i \in 1..Len(checks) : checks[i] # "Ok"}
    IN  IF failed = {} THEN "Ok"
        ELSE checks[CHOOSE i \in failed : \A j \in failed : i <= j]

\* the ? chain: the first Err is returned
validate_all_properties(m) ==
    LET checks == <<prop_memory_consistency(m), prop_timeline_perception(m),
                    prop_causality_justification(m),
                    prop_relationship_consistency(m), prop_death_finality(m),
                    prop_knowledge_flags(m), prop_emotional_state_validity(m)>>
        failed == {i \in 1..Len(checks) : checks[i] # "Ok"}
    IN  IF failed = {} THEN "Ok"
        ELSE checks[CHOOSE i \in failed : \A j \in failed : i <= j]

---------------------------------------------------------------------------
(* generators.rs: apply_narrative_action *)

Event(timeline, participants, effects, causality_violation) ==
    [id |-> 0, timeline |-> timeline, participants |-> participants,
     effects |-> effects, causality_violation |-> causality_violation]

CharacterDeath(c) == [kind |-> "CharacterDeath", character |-> c]
CharacterResurrection(c, mechanism) ==
    [kind |-> "CharacterResurrection", character |-> c, mechanism |-> mechanism]
RelationshipChange(c1, c2, new_state) ==
    [kind |-> "RelationshipChange", character1 |-> c1, character2 |-> c2,
     new_state |-> new_state]
KnowledgeGained(c, flag) == [kind |-> "KnowledgeGained", character |-> c, flag |-> flag]
MemoryTransfer(memory, from, to) ==
    [kind |-> "MemoryTransfer", memory |-> memory, from |-> from, to |-> to]
TimelineBranch(t) == [kind |-> "TimelineBranch", new_timeline |-> t]
AppraisalTrigger(c, belief) ==
    [kind |-> "AppraisalTrigger", character |-> c, belief |-> belief]
AddGoal(c, goal) == [kind |-> "AddGoal", character |-> c, goal |-> goal]

action_CreateCharacter(m, timeline) ==
    IF timeline \in DOMAIN m.timelines THEN create_character(m, timeline) ELSE m

action_KillCharacter(m, character, timeline) ==
    IF /\ HasCharacter(m, character)
       /\ m.characters[character].alive
       /\ m.characters[character].current_timeline = timeline
       /\ timeline \in DOMAIN m.timelines
    THEN record_event(m, Event(timeline, {character},
                               <<CharacterDeath(character)>>, None)).m
    ELSE m

action_ResurrectCharacter(m, character, timeline, mechanism) ==
    IF /\ HasCharacter(m, character)
       /\ m.characters[character].current_timeline = timeline
       /\ timeline \in DOMAIN m.timelines
    THEN record_event(m, Event(timeline, {character},
                               <<CharacterResurrection(character, mechanism)>>,
                               None)).m
    ELSE m

action_ChangeRelationship(m, char1, char2, new_state, timeline) ==
    IF /\ HasCharacter(m, char1) /\ HasCharacter(m, char2)
       /\ m.characters[char1].alive /\ m.characters[char2].alive
       /\ m.characters[char1].current_timeline = timeline
       /\ m.characters[char2].current_timeline = timeline
    THEN record_event(m, Event(timeline, {char1, char2},
                               <<RelationshipChange(char1, char2, new_state)>>,
                               None)).m
    ELSE m

action_GrantKnowledge(m, character, flag, timeline) ==
    IF /\ HasCharacter(m, character)
       /\ m.characters[character].alive
       /\ m.characters[character].current_timeline = timeline
    THEN record_event(m, Event(timeline, {character},
                               <<KnowledgeGained(character, flag)>>, None)).m
    ELSE m

\* fault-injected variant: the traded memory is not created when the store
\* lacks it
action_TradeMemory_no_insert(m, memory, from, to, mechanism) ==
    IF /\ HasCharacter(m, from) /\ HasCharacter(m, to)
       /\ m.characters[from].alive /\ m.characters[to].alive
       /\ m.characters[from].current_timeline = m.characters[to].current_timeline
    THEN record_event(m, Event(m.characters[to].current_timeline, {from, to},
                               <<MemoryTransfer(memory, Some(from), to)>>,
                               None)).m
    ELSE m

action_TradeMemory(m, memory, from, to, mechanism) ==
    IF /\ HasCharacter(m, from) /\ HasCharacter(m, to)
       /\ m.characters[from].alive /\ m.characters[to].alive
       /\ m.characters[from].current_timeline = m.characters[to].current_timeline
    THEN LET timeline == m.characters[to].current_timeline
             traded_memory ==
                 [id |-> memory, event |-> 0, source_timeline |-> timeline,
                  provenance |-> [kind |-> "Traded", original_owner |-> from,
                                  acquired_via |-> mechanism]]
             m1 == IF memory \notin DOMAIN m.memories
                   THEN [m EXCEPT !.memories = MapPut(@, memory, traded_memory)]
                   ELSE m
         IN  record_event(m1, Event(timeline, {from, to},
                                    <<MemoryTransfer(memory, Some(from), to)>>,
                                    None)).m
    ELSE m

action_BranchTimeline(m, parent) ==
    IF parent \in DOMAIN m.timelines /\ m.timelines[parent].events # << >>
    THEN LET events == m.timelines[parent].events
         IN  create_timeline_branch(m, parent, events[Len(events)])
    ELSE m

action_CreateWitnessedMemory(m, event, character, timeline) ==
    IF /\ HasCharacter(m, character)
       /\ m.characters[character].alive
       /\ m.characters[character].current_timeline = timeline
       /\ timeline \in DOMAIN m.timelines
    THEN LET m1 == create_witnessed_memory(m, event, timeline, character)
         IN  [m1 EXCEPT !.characters[character].memories = @ \cup {m.next_memory_id}]
    ELSE m

action_ViolateCausality(m, timeline, violation_type) ==
    IF timeline \in DOMAIN m.timelines
    THEN record_event([m EXCEPT !.timelines[timeline].causality_stable = FALSE],
                      Event(timeline, {}, << >>, Some(violation_type))).m
    ELSE m

action_GrantAbility(m, character, ability) ==
    IF HasCharacter(m, character) /\ m.characters[character].alive
    THEN [m EXCEPT !.characters[character].abilities = @ \cup {ability}]
    ELSE m

apply_narrative_action(m, action) ==
    CASE action.kind = "CreateCharacter" -> action_CreateCharacter(m, action.timeline)
      [] action.kind = "KillCharacter" ->
            action_KillCharacter(m, action.character, action.timeline)
      [] action.kind = "ResurrectCharacter" ->
            action_ResurrectCharacter(m, action.character, action.timeline,
                                      action.mechanism)
      [] action.kind = "ChangeRelationship" ->
            action_ChangeRelationship(m, action.char1, action.char2,
                                      action.new_state, action.timeline)
      [] action.kind = "GrantKnowledge" ->
            action_GrantKnowledge(m, action.character, action.flag, action.timeline)
      [] action.kind = "TradeMemory" ->
            action_TradeMemory(m, action.memory, action.from, action.to,
                               action.mechanism)
      [] action.kind = "BranchTimeline" -> action_BranchTimeline(m, action.parent)
      [] action.kind = "CreateWitnessedMemory" ->
            action_CreateWitnessedMemory(m, action.event, action.character,
                                         action.timeline)
      [] action.kind = "ViolateCausality" ->
            action_ViolateCausality(m, action.timeline, action.violation_type)
      [] action.kind = "GrantAbility" ->
            action_GrantAbility(m, action.character, action.ability)

---------------------------------------------------------------------------
(* Bounds and inputs *)

MaxCharacters == 2
MaxCast == 3
MaxTimelines == 2
MaxMemories == 1
MaxEvents == 2

\* ids the callers pass; 5 is an id no store of the model ever holds
TimelineInputs == {0, 1}
MissingId == 2 + 3
Goal1 == GoalNew("g", Scale, FALSE)
\* a belief whose two lists match, and one whose congruence list is short
BeliefOk ==
    [likelihood |-> Scale, affected_goal_names |-> <<"g">>,
     goal_congruences |-> <<Scale>>, is_incremental |-> FALSE]
BeliefShort ==
    [likelihood |-> Scale, affected_goal_names |-> <<"g">>,
     goal_congruences |-> << >>, is_incremental |-> FALSE]

\* the store the tests start from: two characters in the root timeline
InitCast == create_character(create_character(MultiverseNew, root_timeline),
                             root_timeline)

\* events of the store specification
StoreEvents ==
    {[Event(0, {0}, <<CharacterDeath(0)>>, None) EXCEPT !.id = 7],
     Event(1, {0}, <<KnowledgeGained(0, "a")>>, None),
     Event(0, {}, <<CharacterResurrection(0, "Gate"), TimelineBranch(1)>>, None)}

\* effect lists of the effect specification
RelationshipEffects ==
    {RelationshipChange(c[1], c[2], s) :
        c \in {<<0, 1>>, <<1, 0>>, <<0, 0>>, <<0, MissingId>>,
               <<MissingId, 1>>, <<MissingId, MissingId>>},
        s \in {"Friendly", "Hostile"}}
EffectLists ==
    {<<e>> : e \in RelationshipEffects}
    \cup {<<RelationshipChange(0, 1, "Friendly"), RelationshipChange(0, 1, "Allied")>>,
          <<RelationshipChange(0, 1, "Friendly"), RelationshipChange(1, 0, "Hostile")>>,
          <<RelationshipChange(0, MissingId, "Friendly"),
            RelationshipChange(0, 1, "Hostile")>>,
          <<RelationshipChange(MissingId, MissingId, "Hostile"),
            RelationshipChange(1, 0, "Neutral")>>}
    \cup {<<KnowledgeGained(0, "a")>>, <<KnowledgeGained(0, "b")>>,
          <<KnowledgeGained(1, "a")>>, <<KnowledgeGained(MissingId, "a")>>,
          <<KnowledgeGained(0, "a"), KnowledgeGained(0, "a")>>,
          <<KnowledgeGained(0, "a"), KnowledgeGained(0, "b")>>,
          <<KnowledgeGained(MissingId, "a"), KnowledgeGained(1, "b")>>}
    \cup {<<CharacterDeath(0)>>, <<CharacterDeath(MissingId)>>,
          <<CharacterResurrection(0, "Gate")>>,
          <<CharacterDeath(MissingId), CharacterDeath(1)>>,
          <<CharacterDeath(0), CharacterResurrection(0, "Gate")>>}
    \cup {<<MemoryTransfer(0, None, 0)>>,
          <<MemoryTransfer(0, Some(MissingId), 1)>>,
          <<MemoryTransfer(0, Some(0), MissingId), KnowledgeGained(1, "b")>>,
          <<TimelineBranch(1)>>, << >>}
    \cup {<<AddGoal(0, Goal1)>>, <<AddGoal(MissingId, Goal1)>>,
          <<AppraisalTrigger(0, BeliefOk)>>, <<AppraisalTrigger(0, BeliefShort)>>,
          <<AppraisalTrigger(MissingId, BeliefShort)>>,
          <<AddGoal(0, Goal1), AppraisalTrigger(0, BeliefShort)>>}
EffectEvents ==
    {Event(0, {0, 1}, effects, None) : effects \in EffectLists}
    \cup {Event(MissingId, {1}, <<CharacterDeath(1)>>, None)}

\* events and arguments of the memory specification
MemoryEvents == {Event(0, P, << >>, None) : P \in {{}, {0}, {0, 1}}}

\* arguments of the narrative actions (generators.rs strategies: timelines
\* 0..9, characters 0..12, any memory id, a non-empty mechanism)
NarrativeActions ==
    {[kind |-> "CreateCharacter", timeline |-> t] : t \in TimelineInputs}
    \cup {[kind |-> "KillCharacter", character |-> c, timeline |-> t] :
             c \in {0, 1}, t \in TimelineInputs}
    \cup {[kind |-> "ResurrectCharacter", character |-> c, timeline |-> t,
           mechanism |-> "Gate"] : c \in {0, 1}, t \in TimelineInputs}
    \cup {[kind |-> "ChangeRelationship", char1 |-> c1, char2 |-> c2,
           new_state |-> s, timeline |-> t] :
             c1 \in {0, 1}, c2 \in {0, 1}, s \in {"Hostile", "Allied"},
             t \in TimelineInputs}
    \cup {[kind |-> "GrantKnowledge", character |-> c, flag |-> f, timeline |-> t] :
             c \in {0, 1}, f \in {"a", "b"}, t \in TimelineInputs}
    \cup {[kind |-> "TradeMemory", memory |-> x, from |-> c1, to |-> c2,
           mechanism |-> "market"] : x \in {7}, c1 \in {0, 1}, c2 \in {0, 1}}
    \cup {[kind |-> "BranchTimeline", parent |-> t] : t \in TimelineInputs}
    \cup {[kind |-> "GrantAbility", character |-> c, ability |-> a] :
             c \in {0, 1}, a \in {"TimelinePerception"}}

\* events of the death and resurrection specification: one participant,
\* on the root, on the first branch and on a timeline that is never created
LifeEffects(c) ==
    {<< >>, <<CharacterDeath(c)>>, <<CharacterResurrection(c, "Gate")>>,
     <<CharacterDeath(c), CharacterResurrection(c, "Gate")>>}
LifeEvents ==
    UNION {{Event(t, {c}, effects, None) :
               t \in TimelineInputs, effects \in LifeEffects(c)} : c \in {0, 1}}
    \cup {Event(MissingId, {0}, << >>, None)}

\* events of the causality specification: with and without a violation,
\* with and without a mechanism, on stored timelines and on one never created
CausalityEvents ==
    {Event(t, {}, << >>, v) :
        t \in TimelineInputs \cup {MissingId},
        v \in {None,
               Some([kind |-> "EffectBeforeCause", mechanism |-> "Gate"]),
               Some([kind |-> "RetroactiveChange", mechanism |-> ""])}}

\* events of the validator specification: each one breaks a different check
ValidateEvents ==
    {Event(0, {0, 1}, <<RelationshipChange(0, 1, "Friendly"),
                        RelationshipChange(1, 0, "Hostile")>>, None),
     Event(0, {0}, <<CharacterResurrection(0, "")>>, None),
     Event(MissingId, {}, <<KnowledgeGained(0, "a")>>, None),
     Event(0, {}, << >>, Some([kind |-> "Superposition", mechanism |-> "Gate"])),
     Event(0, {}, <<AddGoal(0, Goal1), AppraisalTrigger(0, BeliefOk)>>, None)}

\* events of the knowledge specification
KnowledgeEvents ==
    {Event(t, {}, effects, None) :
        t \in TimelineInputs \cup {MissingId},
        effects \in {<<KnowledgeGained(0, "a")>>, <<KnowledgeGained(0, "b")>>,
                     <<KnowledgeGained(1, "a")>>,
                     <<KnowledgeGained(0, "a"), KnowledgeGained(0, "a")>>,
                     <<KnowledgeGained(MissingId, "a")>>}}

\* goals, beliefs and events of the appraisal specification
MaxAppraisals == 4
Goal2 == GoalNew("h", -Scale, FALSE)
\* the incremental belief, congruence 1.0 and likelihood 1.0, for goal g
BeliefIncremental ==
    [likelihood |-> Scale, affected_goal_names |-> <<"g">>,
     goal_congruences |-> <<Scale>>, is_incremental |-> TRUE]
\* an incremental belief against both goals, a quarter at a time
BeliefAgainst ==
    [likelihood |-> Scale \div 4, affected_goal_names |-> <<"g", "h">>,
     goal_congruences |-> <<-Scale, -Scale>>, is_incremental |-> TRUE]
\* an absolute belief that confirms both goals
BeliefBoth ==
    [likelihood |-> Scale, affected_goal_names |-> <<"g", "h">>,
     goal_congruences |-> <<Scale, Scale>>, is_incremental |-> FALSE]
AppraisalEvents ==
    {Event(0, {0}, effects, None) :
        effects \in {<<AddGoal(0, Goal1)>>, <<AddGoal(0, Goal2)>>,
                     <<AppraisalTrigger(0, BeliefIncremental)>>,
                     <<AppraisalTrigger(0, BeliefAgainst)>>,
                     <<AppraisalTrigger(0, BeliefBoth)>>}}

\* the memory trades of the trade specification: fresh and repeated ids,
\* either direction, and a character trading with itself
TradeActions ==
    {[kind |-> "TradeMemory", memory |-> x, from |-> c1, to |-> c2,
      mechanism |-> "market"] : x \in {0, 3, 7}, c1 \in {0, 1}, c2 \in {0, 1}}

\* memories inserted straight into the store's public map, as the story
\* scenario inserts its forged memory: every provenance, under ids 0 and 1
Memory(id, event, provenance) ==
    [id |-> id, event |-> event, source_timeline |-> root_timeline,
     provenance |-> provenance]
Provenances ==
    {[kind |-> "Witnessed", character |-> 0],
     [kind |-> "Witnessed", character |-> 1],
     [kind |-> "Traded", original_owner |-> 0, acquired_via |-> "market"],
     [kind |-> "Forged", forger |-> ""],
     [kind |-> "Forged", forger |-> "Cartel"],
     [kind |-> "Compound", sources |-> << >>],
     [kind |-> "Compound", sources |-> <<0>>],
     [kind |-> "Compound", sources |-> <<0, 1>>]}
ProvenanceMemories == {Memory(id, 0, p) : id \in {0, 1}, p \in Provenances}

\* memory transfers between the two characters, from nobody, from and to a
\* missing character, and from a character to itself
TransferEvents ==
    {Event(0, {0, 1}, <<MemoryTransfer(x, from, to)>>, None) :
        x \in {0, 3}, from \in {None, Some(0), Some(1), Some(MissingId)},
        to \in {0, 1, MissingId}}
    \cup {Event(0, {0, 1}, <<MemoryTransfer(3, Some(0), 1),
                            MemoryTransfer(3, Some(1), 0)>>, None)}

\* goals and beliefs of the goal specification: a wanted goal g and an
\* unwanted maintenance goal k, both created with likelihood 0.5; beliefs
\* with likelihood in [0, 1] and congruences in [-1, 1], incremental and
\* absolute, about one goal, about both, and about a goal name z that the
\* character does not have
\* MaxIntensity is in quarters of 1.0, the step of the beliefs' products
MaxIntensity == 2
GoalK == GoalNew("k", -Scale, TRUE)
Belief(likelihood, names, congruences, is_incremental) ==
    [likelihood |-> likelihood, affected_goal_names |-> names,
     goal_congruences |-> congruences, is_incremental |-> is_incremental]
GoalBeliefs ==
    {Belief(x[1], <<name>>, <<x[2]>>, inc) :
        name \in {"g", "k"}, inc \in BOOLEAN,
        x \in {<<Scale, Scale>>, <<Scale, -Scale>>, <<Half, Scale>>,
               <<Half, -Scale>>, <<0, Scale>>}}
    \cup {Belief(Scale, <<"z", "g">>, <<Scale, -Half>>, TRUE),
          Belief(Scale, <<"g", "k">>, <<Half, -Half>>, TRUE),
          Belief(Half, <<"k", "g">>, <<-Scale, Scale>>, FALSE)}
InitGoals == effect_AddGoal(effect_AddGoal(InitCast, 0, Goal1), 0, GoalK)

\* beliefs and decay factors of the mood specification: small steps up and
\* down for g and a belief that confirms it; decay by 0.0, by 0.004 (which
\* takes 0.25 to the removal threshold and 0.5 just above it) and by 2.0
MoodBeliefs ==
    {Belief(Half, <<"g">>, <<Half>>, TRUE),
     Belief(Half, <<"g">>, <<-Half>>, TRUE),
     Belief(Scale, <<"g">>, <<Scale>>, FALSE)}
DecayFactors == {0, Scale \div 250, 2 * Scale}

\* events whose timeline and participants are chosen independently of the
\* character that their effect names
ForeignEffects ==
    UNION {{CharacterDeath(c), CharacterResurrection(c, "Gate"),
            KnowledgeGained(c, "a"), RelationshipChange(c, 1 - c, "Hostile"),
            MemoryTransfer(0, None, c)} : c \in {0, 1}}
ForeignEvents ==
    {Event(t, p, <<e>>, None) :
        t \in TimelineInputs, p \in {{}, {0}}, e \in ForeignEffects}

---------------------------------------------------------------------------
(* The calls as actions *)

Call(op, arg, ret) == [op |-> op, arg |-> arg, ret |-> ret]

Init ==
    /\ mv = MultiverseNew
    /\ last = Call("new", << >>, None)
    /\ panicked = FALSE

InitWithCast ==
    /\ mv = InitCast
    /\ last = Call("create_character", <<root_timeline>>, Some(1))
    /\ panicked = FALSE

CreateCharacter(timeline) ==
    /\ ~panicked
    /\ mv.next_character_id < MaxCharacters
    /\ mv' = create_character(mv, timeline)
    /\ last' = Call("create_character", <<timeline>>, Some(mv.next_character_id))
    /\ UNCHANGED panicked

CreateTimelineBranch(parent, divergence_event) ==
    /\ ~panicked
    /\ mv.next_timeline_id < MaxTimelines
    /\ mv' = create_timeline_branch(mv, parent, divergence_event)
    /\ last' = Call("create_timeline_branch", <<parent, divergence_event>>,
                    Some(mv.next_timeline_id))
    /\ UNCHANGED panicked

CreateWitnessedMemory(event, timeline, character) ==
    /\ ~panicked
    /\ mv.next_memory_id < MaxMemories
    /\ mv' = create_witnessed_memory(mv, event, timeline, character)
    /\ last' = Call("create_witnessed_memory", <<event, timeline, character>>,
                    Some(mv.next_memory_id))
    /\ UNCHANGED panicked

RecordEvent(event) ==
    /\ ~panicked
    /\ mv.next_event_id < MaxEvents
    /\ LET r == record_event(mv, event)
       IN  /\ mv' = r.m
           /\ panicked' = r.panic
           /\ last' = Call("record_event", <<event>>,
                           IF r.panic THEN None ELSE Some(mv.next_event_id))

DecayEmotions(decay_factor) ==
    /\ ~panicked
    /\ mv' = decay_emotions(mv, decay_factor)
    /\ last' = Call("decay_emotions", <<decay_factor>>, None)
    /\ UNCHANGED panicked

\* direct writes to public fields, as the tests make them
MarkUnstable(timeline) ==
    /\ ~panicked
    /\ timeline \in DOMAIN mv.timelines
    /\ mv' = [mv EXCEPT !.timelines[timeline].causality_stable = FALSE]
    /\ last' = Call("causality_stable", <<timeline>>, None)
    /\ UNCHANGED panicked

InsertMemory(character, memory_id) ==
    /\ ~panicked
    /\ HasCharacter(mv, character)
    /\ mv' = [mv EXCEPT !.characters[character].memories = @ \cup {memory_id}]
    /\ last' = Call("memories.insert", <<character, memory_id>>, None)
    /\ UNCHANGED panicked

NarrativeAction(action) ==
    /\ ~panicked
    /\ mv' = apply_narrative_action(mv, action)
    /\ mv'.next_character_id <= MaxCast
    /\ mv'.next_timeline_id <= MaxTimelines
    /\ mv'.next_event_id <= MaxEvents
    /\ last' = Call("apply_narrative_action", << >>, None)
    /\ UNCHANGED panicked

\* a direct write to the public field current_timeline, as the tests make it
MoveCharacter(character, timeline) ==
    /\ ~panicked
    /\ HasCharacter(mv, character)
    /\ mv' = [mv EXCEPT !.characters[character].current_timeline = timeline]
    /\ last' = Call("current_timeline", <<character, timeline>>, None)
    /\ UNCHANGED panicked

\* a direct write to the public field gain of a character's emotional state
SetGain(character, gain) ==
    /\ ~panicked
    /\ HasCharacter(mv, character)
    /\ mv' = [mv EXCEPT !.characters[character].emotional_state.gain = gain]
    /\ last' = Call("gain", <<character, gain>>, None)
    /\ UNCHANGED panicked

\* record_event, for the longer event sequences of the appraisal
\* specification
RecordAppraisal(event) ==
    /\ ~panicked
    /\ mv.next_event_id < MaxAppraisals
    /\ LET r == record_event(mv, event)
       IN  /\ mv' = r.m
           /\ panicked' = r.panic
           /\ last' = Call("record_event", <<event>>,
                           IF r.panic THEN None ELSE Some(mv.next_event_id))

\* a direct insert into the public map memories of the store
InsertStoreMemory(memory) ==
    /\ ~panicked
    /\ mv' = [mv EXCEPT !.memories = MapPut(@, memory.id, memory)]
    /\ last' = Call("memories.insert", <<memory>>, None)
    /\ UNCHANGED panicked

\* the two queries; the store is only read
CanPerceiveTimeline(character, timeline) ==
    /\ ~panicked
    /\ last' = Call("can_perceive_timeline", <<character, timeline>>,
                    Some(can_perceive_timeline(mv, character, timeline)))
    /\ UNCHANGED <<mv, panicked>>

HasMemoryOfEvent(character, event) ==
    /\ ~panicked
    /\ last' = Call("has_memory_of_event", <<character, event>>,
                    Some(has_memory_of_event(mv, character, event)))
    /\ UNCHANGED <<mv, panicked>>

\* the sum of the intensities of an emotion list
RECURSIVE TotalIntensity(_, _)
TotalIntensity(emotions, i) ==
    IF i > Len(emotions) THEN 0
    ELSE emotions[i].intensity + TotalIntensity(emotions, i + 1)

\* appraise called on a character's emotional state, as the unit tests call
\* it; the model stops appraising once the emotions add up to MaxIntensity
\* quarters
Appraise(character, belief) ==
    /\ ~panicked
    /\ HasCharacter(mv, character)
    /\ 4 * TotalIntensity(mv.characters[character].emotional_state.emotions, 1)
          < MaxIntensity * Scale
    /\ LET r == appraise(mv.characters[character].emotional_state, belief)
       IN  /\ mv' = [mv EXCEPT !.characters[character].emotional_state = r.es]
           /\ panicked' = r.panic
    /\ last' = Call("appraise", <<character, belief>>, None)

---------------------------------------------------------------------------
(* Specifications *)

\* the store's mutation API, in any interleaving
Next ==
    \/ \E t \in TimelineInputs : CreateCharacter(t)
    \/ \E p \in TimelineInputs : CreateTimelineBranch(p, 0)
    \/ CreateWitnessedMemory(0, 0, 0)
    \/ \E e \in StoreEvents : RecordEvent(e)
    \/ DecayEmotions(Half)
Spec == Init /\ [][Next]_vars

\* timelines and their character sets
NextBranch ==
    \/ \E t \in TimelineInputs : CreateCharacter(t)
    \/ \E p \in TimelineInputs, e \in {0, 1} : CreateTimelineBranch(p, e)
    \/ \E t \in TimelineInputs : MarkUnstable(t)
    \/ RecordEvent(Event(0, {0}, << >>, None))
SpecBranch == Init /\ [][NextBranch]_vars

\* events recorded on a store of two characters
NextEffects == \E e \in EffectEvents : RecordEvent(e)
SpecEffects == InitWithCast /\ [][NextEffects]_vars

\* witnessed memories
NextMemory ==
    \/ \E e \in MemoryEvents : RecordEvent(e)
    \/ \E e \in {0, 1}, c \in {0, 1} : CreateWitnessedMemory(e, 0, c)
    \/ \E c \in {0, 1} : \E x \in DOMAIN mv.memories : InsertMemory(c, x)
SpecMemory == InitWithCast /\ [][NextMemory]_vars

\* random narrative action sequences
NextActions == \E a \in NarrativeActions : NarrativeAction(a)
SpecActions == InitWithCast /\ [][NextActions]_vars

\* deaths and resurrections on the root and on a branch of it
InitLife ==
    /\ mv = create_character(MultiverseNew, root_timeline)
    /\ last = Call("create_character", <<root_timeline>>, Some(0))
    /\ panicked = FALSE
NextLife ==
    \/ CreateCharacter(1)
    \/ CreateTimelineBranch(root_timeline, 0)
    \/ \E e \in LifeEvents : RecordEvent(e)
SpecLife == InitLife /\ [][NextLife]_vars

\* memories, moves between the root and a branch, and TimelinePerception
InitPerception ==
    /\ mv = create_timeline_branch(InitCast, root_timeline, 0)
    /\ last = Call("create_timeline_branch", <<root_timeline, 0>>, Some(1))
    /\ panicked = FALSE
NextPerception ==
    \/ \E t \in TimelineInputs : CreateWitnessedMemory(0, t, 0)
    \/ \E c \in {0, 1}, x \in 0..MaxMemories : InsertMemory(c, x)
    \/ \E c \in {0, 1}, t \in TimelineInputs : MoveCharacter(c, t)
    \/ \E c \in {0, 1} :
          NarrativeAction([kind |-> "GrantAbility", character |-> c,
                           ability |-> "TimelinePerception"])
SpecPerception == InitPerception /\ [][NextPerception]_vars

\* causality violations and the callers' causality_stable writes
NextCausality ==
    \/ CreateTimelineBranch(root_timeline, 0)
    \/ \E e \in CausalityEvents : RecordEvent(e)
    \/ \E t \in TimelineInputs : MarkUnstable(t)
SpecCausality == InitWithCast /\ [][NextCausality]_vars

\* stores on which the seven checks fail in many combinations
NextValidate ==
    \/ \E e \in ValidateEvents : RecordEvent(e)
    \/ CreateWitnessedMemory(0, 1, 0)
    \/ InsertMemory(0, 0)
    \/ MarkUnstable(root_timeline)
    \/ SetGain(0, -4 * Scale)
SpecValidate == InitWithCast /\ [][NextValidate]_vars

\* knowledge grants on the root, a branch and an absent timeline, and moves
NextKnowledge ==
    \/ \E e \in KnowledgeEvents : RecordEvent(e)
    \/ \E c \in {0, 1}, t \in TimelineInputs \cup {MissingId} : MoveCharacter(c, t)
SpecKnowledge == InitPerception /\ [][NextKnowledge]_vars

\* goals, appraisals and decay of one character
NextAppraise ==
    \/ \E e \in AppraisalEvents : RecordAppraisal(e)
    \/ DecayEmotions(Scale \div 10)
SpecAppraise == InitWithCast /\ [][NextAppraise]_vars

\* memory trades between the two characters of the root timeline
NextTrade == \E a \in TradeActions : NarrativeAction(a)
SpecTrade == InitWithCast /\ [][NextTrade]_vars

\* memories of every provenance, owned and unowned, and one event that
\* character 0 took part in
NextProvenance ==
    \/ \E x \in ProvenanceMemories : InsertStoreMemory(x)
    \/ \E c \in {0, 1}, x \in {0, 1} : InsertMemory(c, x)
    \/ RecordEvent(Event(0, {0}, << >>, None))
SpecProvenance == InitWithCast /\ [][NextProvenance]_vars

\* memory transfers recorded on a store of two characters
NextTransfer == \E e \in TransferEvents : RecordEvent(e)
SpecTransfer == InitWithCast /\ [][NextTransfer]_vars

\* can_perceive_timeline asked of characters that move and gain abilities
NextPerceive ==
    \/ \E c \in {0, 1}, t \in TimelineInputs \cup {MissingId} : MoveCharacter(c, t)
    \/ \E c \in {0, 1}, a \in {"TimelinePerception", "Precognition"} :
          NarrativeAction([kind |-> "GrantAbility", character |-> c, ability |-> a])
    \/ \E c \in {0, 1, MissingId}, t \in TimelineInputs \cup {MissingId} :
          CanPerceiveTimeline(c, t)
SpecPerceive == InitPerception /\ [][NextPerceive]_vars

\* has_memory_of_event asked of characters that own stored and absent ids
NextRecall ==
    \/ \E e \in {0, 1} : CreateWitnessedMemory(e, root_timeline, 0)
    \/ \E c \in {0, 1}, x \in 0..MaxMemories : InsertMemory(c, x)
    \/ \E c \in {0, 1, MissingId}, e \in {0, 1, MissingId} : HasMemoryOfEvent(c, e)
SpecRecall == InitWithCast /\ [][NextRecall]_vars

\* appraisals of one character's two goals; a decay by 0.0 clears the
\* emotions
InitWithGoals ==
    /\ mv = InitGoals
    /\ last = Call("add_goal", <<0, GoalK>>, None)
    /\ panicked = FALSE
NextGoals ==
    \/ \E b \in GoalBeliefs : Appraise(0, b)
    \/ DecayEmotions(0)
SpecGoals == InitWithGoals /\ [][NextGoals]_vars

\* appraisals and decays of one character's emotions; a decay that grows
\* the emotions stops at the same limit as the appraisals
NextMood ==
    \/ \E b \in MoodBeliefs : Appraise(0, b)
    \/ \E f \in DecayFactors :
          /\ f > Scale => 4 * TotalIntensity(mv.characters[0].emotional_state.emotions, 1)
                          < MaxIntensity * Scale
          /\ DecayEmotions(f)
SpecMood == InitWithGoals /\ [][NextMood]_vars

\* two characters with the same goal, each appraising steps up, and decays
\* of the whole store
InitDecay ==
    /\ mv = effect_AddGoal(InitGoals, 1, Goal1)
    /\ last = Call("add_goal", <<1, Goal1>>, None)
    /\ panicked = FALSE
NextDecay ==
    \/ \E c \in {0, 1} : Appraise(c, Belief(Half, <<"g">>, <<Half>>, TRUE))
    \/ \E f \in DecayFactors :
          /\ f > Scale =>
                \A c \in {0, 1} :
                   4 * TotalIntensity(mv.characters[c].emotional_state.emotions, 1)
                      < MaxIntensity * Scale
          /\ DecayEmotions(f)
SpecDecay == InitDecay /\ [][NextDecay]_vars

\* events on the root and on a branch; character 0 lives in the root,
\* character 1 was created in the branch
InitForeign ==
    /\ mv = create_character(
                create_timeline_branch(
                    create_character(MultiverseNew, root_timeline), root_timeline, 0),
                1)
    /\ last = Call("create_character", <<1>>, Some(1))
    /\ panicked = FALSE
NextForeign == \E e \in ForeignEvents : RecordEvent(e)
SpecForeign == InitForeign /\ [][NextForeign]_vars

---------------------------------------------------------------------------
(* Properties *)

\* the step just taken was a call of op that returned
Returned(op) == last'.op = op /\ ~panicked'

\* the event as record_event stores it, and the store after the first n of
\* its effects
StoredEvent(m, event) == [event EXCEPT !.id = m.next_event_id]
AfterEffects(m, event, n) ==
    ApplyEffects(PushEvent(m, StoredEvent(m, event)), event.effects, n).m

\* C1: after every action of every sequence of narrative actions applied to
\* a store whose cast lives in the root timeline, validate_all_properties
\* returns success
C1_ActionsKeepAllProperties == validate_all_properties(mv) = "Ok"

\* C2: no store mutation ever aborts, whatever its arguments
C2_NoMutationFails == ~panicked

\* the effect names a character or a memory that the store does not hold
ReferencesMissingId(m, effect) ==
    CASE effect.kind = "RelationshipChange" ->
            \/ ~HasCharacter(m, effect.character1)
            \/ ~HasCharacter(m, effect.character2)
      [] effect.kind = "MemoryTransfer" ->
            \/ ~HasCharacter(m, effect.to)
            \/ IsSome(effect.from) /\ ~HasCharacter(m, Unwrap(effect.from))
            \/ effect.memory \notin DOMAIN m.memories
      [] effect.kind = "TimelineBranch" -> FALSE
      [] OTHER -> ~HasCharacter(m, effect.character)

\* C3: while record_event applies an effect list, an effect that references
\* an id absent from the store changes no character, memory or timeline
C3_MissingIdEffectIsNoOp ==
    [][Returned("record_event") =>
          LET event == last'.arg[1]
          IN  \A i \in 1..Len(event.effects) :
                 ReferencesMissingId(mv, event.effects[i]) =>
                    LET before == AfterEffects(mv, event, i - 1)
                        after == AfterEffects(mv, event, i)
                    IN  /\ after.characters = before.characters
                        /\ after.memories = before.memories
                        /\ after.timelines = before.timelines]_vars

\* C4: record_event(e) returns the event counter's value before the call,
\* whatever e.id is, stores e under it with the id field overwritten,
\* appends the id to the list of e's timeline exactly when that timeline
\* exists, touches no other list, and applies e's effects either way
C4_RecordEventContract ==
    [][Returned("record_event") =>
          LET event == last'.arg[1]
              id == mv.next_event_id
          IN  /\ last'.ret = Some(id)
              /\ id \notin DOMAIN mv.events
              /\ mv'.next_event_id = id + 1
              /\ DOMAIN mv'.events = DOMAIN mv.events \cup {id}
              /\ mv'.events[id] = [event EXCEPT !.id = id]
              /\ DOMAIN mv'.timelines = DOMAIN mv.timelines
              /\ \A t \in DOMAIN mv.timelines :
                    mv'.timelines[t].events =
                        IF t = event.timeline
                        THEN Append(mv.timelines[t].events, id)
                        ELSE mv.timelines[t].events
              /\ mv'.characters = apply_event_effects(mv, event).m.characters]_vars

\* C4, reached: an event carrying another id was recorded on a timeline the
\* store does not hold, and its effect was applied
C4_Witness ==
    /\ last.op = "record_event" /\ ~panicked
    /\ last.arg[1].timeline \notin DOMAIN mv.timelines
    /\ last.arg[1].id # Unwrap(last.ret)
    /\ last.arg[1].effects = <<KnowledgeGained(0, "a")>>
    /\ HasCharacter(mv, 0) /\ "a" \in mv.characters[0].knowledge_flags

\* every id below a counter is in use, and no other
IdsAreCounters(m) ==
    /\ DOMAIN m.characters = 0..(m.next_character_id - 1)
    /\ DOMAIN m.memories = 0..(m.next_memory_id - 1)
    /\ DOMAIN m.events = 0..(m.next_event_id - 1)
    /\ DOMAIN m.timelines = 0..(m.next_timeline_id - 1)

\* C5: in any interleaving each creating call returns its kind's counter,
\* which then advances by one (characters, memories and events from 0,
\* branches from 1), so no id is returned twice, and no stored entity is
\* overwritten or removed
C5_IdsCountUpNothingOverwritten ==
    [][/\ Returned("create_character") =>
             /\ last'.ret = Some(mv.next_character_id)
             /\ mv.next_character_id \notin DOMAIN mv.characters
             /\ mv'.next_character_id = mv.next_character_id + 1
       /\ Returned("create_witnessed_memory") =>
             /\ last'.ret = Some(mv.next_memory_id)
             /\ mv.next_memory_id \notin DOMAIN mv.memories
             /\ mv'.next_memory_id = mv.next_memory_id + 1
       /\ Returned("record_event") =>
             /\ last'.ret = Some(mv.next_event_id)
             /\ mv.next_event_id \notin DOMAIN mv.events
             /\ mv'.next_event_id = mv.next_event_id + 1
       /\ Returned("create_timeline_branch") =>
             /\ last'.ret = Some(mv.next_timeline_id)
             /\ mv.next_timeline_id \notin DOMAIN mv.timelines
             /\ mv.next_timeline_id >= 1
             /\ mv'.next_timeline_id = mv.next_timeline_id + 1
       /\ ~panicked' =>
             /\ IdsAreCounters(mv')
             /\ mv'.next_character_id >= mv.next_character_id
             /\ mv'.next_memory_id >= mv.next_memory_id
             /\ mv'.next_event_id >= mv.next_event_id
             /\ mv'.next_timeline_id >= mv.next_timeline_id
             /\ \A x \in DOMAIN mv.memories : mv'.memories[x] = mv.memories[x]
             /\ \A x \in DOMAIN mv.events : mv'.events[x] = mv.events[x]
             /\ \A x \in DOMAIN mv.characters :
                   /\ mv'.characters[x].id = x
                   /\ mv'.characters[x].native_timeline =
                          mv.characters[x].native_timeline
             /\ \A x \in DOMAIN mv.timelines :
                   /\ mv'.timelines[x].id = x
                   /\ mv'.timelines[x].parent = mv.timelines[x].parent
                   /\ mv.timelines[x].characters \subseteq mv'.timelines[x].characters
                   /\ Len(mv.timelines[x].events) <= Len(mv'.timelines[x].events)
                   /\ SubSeq(mv'.timelines[x].events, 1, Len(mv.timelines[x].events))
                          = mv.timelines[x].events]_vars

\* C5, reached: every kind has been created and the second character was
\* just returned
C5_Witness ==
    /\ last = Call("create_character", <<1>>, Some(1))
    /\ mv.next_timeline_id = 2
    /\ mv.next_memory_id = 1
    /\ mv.next_event_id = 2
    /\ IdsAreCounters(mv)

\* C6: a branch of an existing parent gets the parent's character set, the
\* parent and the divergence event it was given, no events and a stable
\* flag, even off an unstable parent; no existing timeline or character
\* changes
C6_BranchCopiesCharacters ==
    [][(Returned("create_timeline_branch")
          /\ last'.arg[1] \in DOMAIN mv.timelines) =>
          LET parent == last'.arg[1]
              id == Unwrap(last'.ret)
          IN  /\ id \notin DOMAIN mv.timelines
              /\ DOMAIN mv'.timelines = DOMAIN mv.timelines \cup {id}
              /\ mv'.timelines[id] =
                    [id |-> id, parent |-> Some(parent),
                     divergence_event |-> Some(last'.arg[2]),
                     events |-> << >>,
                     characters |-> mv.timelines[parent].characters,
                     causality_stable |-> TRUE]
              /\ \A t \in DOMAIN mv.timelines : mv'.timelines[t] = mv.timelines[t]
              /\ mv'.characters = mv.characters]_vars

\* C6, reached: a branch was just taken off an unstable parent that has
\* characters and events
C6_Witness ==
    /\ last.op = "create_timeline_branch"
    /\ last.arg[1] \in DOMAIN mv.timelines
    /\ LET parent == mv.timelines[last.arg[1]]
           child == mv.timelines[Unwrap(last.ret)]
       IN  /\ ~parent.causality_stable
           /\ parent.events # << >>
           /\ parent.characters # {}
           /\ child.characters = parent.characters
           /\ child.causality_stable

\* both characters hold an entry for the other and both entries are state
Mutual(m, c1, c2, state) ==
    /\ HasCharacter(m, c1) /\ HasCharacter(m, c2)
    /\ c2 \in DOMAIN m.characters[c1].relationships
    /\ c1 \in DOMAIN m.characters[c2].relationships
    /\ m.characters[c1].relationships[c2] = state
    /\ m.characters[c2].relationships[c1] = state

\* no effect after the i-th is a RelationshipChange of the same pair
LastOfPair(effects, i) ==
    \A j \in (i + 1)..Len(effects) :
        effects[j].kind = "RelationshipChange" =>
            {effects[j].character1, effects[j].character2}
                # {effects[i].character1, effects[i].character2}

\* C7 (as stated): once record_event has applied a RelationshipChange of
\* c1, c2 to state, for any ids c1 and c2, both characters hold an entry
\* for the other and both entries equal state
C7_AnyIdsMutual ==
    [][Returned("record_event") =>
          LET event == last'.arg[1]
          IN  \A i \in 1..Len(event.effects) :
                 LET effect == event.effects[i]
                 IN  effect.kind = "RelationshipChange" =>
                        Mutual(AfterEffects(mv, event, i), effect.character1,
                               effect.character2, effect.new_state)]_vars

\* C7 (amended): the same for ids c1 and c2 that both exist in the store,
\* right after the effect and, when no later effect of the event changes
\* the pair, in the store record_event leaves behind
C7_ExistingIdsMutual ==
    [][Returned("record_event") =>
          LET event == last'.arg[1]
          IN  \A i \in 1..Len(event.effects) :
                 LET effect == event.effects[i]
                 IN  (/\ effect.kind = "RelationshipChange"
                      /\ HasCharacter(mv, effect.character1)
                      /\ HasCharacter(mv, effect.character2)) =>
                        /\ Mutual(AfterEffects(mv, event, i), effect.character1,
                                  effect.character2, effect.new_state)
                        /\ LastOfPair(event.effects, i) =>
                              Mutual(mv', effect.character1, effect.character2,
                                     effect.new_state)]_vars

\* C7, reached: a change between two distinct existing characters replaced
\* the value an earlier event had set, on both sides
C7_Witness ==
    /\ last.op = "record_event" /\ ~panicked
    /\ last.arg[1].effects = <<RelationshipChange(1, 0, "Hostile")>>
    /\ mv.next_event_id = 2
    /\ mv.events[0].effects = <<RelationshipChange(0, 1, "Friendly")>>
    /\ Mutual(mv, 1, 0, "Hostile")

\* every stored event lies on timeline t and only changes relationships
\* between two existing characters of t
OnlyRelationshipEventsOn(m, t) ==
    /\ t \in DOMAIN m.timelines
    /\ \A id \in DOMAIN m.events :
          /\ m.events[id].timeline = t
          /\ \A i \in 1..Len(m.events[id].effects) :
                LET effect == m.events[id].effects[i]
                IN  /\ effect.kind = "RelationshipChange"
                    /\ effect.character1 # effect.character2
                    /\ {effect.character1, effect.character2}
                          \subseteq (m.timelines[t].characters
                                        \cap DOMAIN m.characters)

\* C8: after events of one timeline that only change relationships between
\* two existing characters of it, in either argument order,
\* prop_relationship_consistency returns success
C8_ReplayAgreesWithStore ==
    (~panicked /\ OnlyRelationshipEventsOn(mv, root_timeline)) =>
        prop_relationship_consistency(mv) = "Ok"

\* C9: granting a flag the character already holds leaves the flag set as
\* it was, and the first grant to an empty set leaves exactly one element;
\* the store record_event leaves behind has the flags of the last effect
C9_KnowledgeGrantIdempotent ==
    [][Returned("record_event") =>
          LET event == last'.arg[1]
              flags(n, c) == AfterEffects(mv, event, n).characters[c].knowledge_flags
          IN  /\ \A i \in 1..Len(event.effects) :
                    LET effect == event.effects[i]
                    IN  (effect.kind = "KnowledgeGained"
                            /\ HasCharacter(mv, effect.character)) =>
                           LET before == flags(i - 1, effect.character)
                               after == flags(i, effect.character)
                           IN  /\ effect.flag \in before => after = before
                               /\ before = {} =>
                                     after = {effect.flag} /\ Cardinality(after) = 1
                               /\ after = before \cup {effect.flag}
              /\ \A c \in DOMAIN mv.characters :
                    mv'.characters[c].knowledge_flags = flags(Len(event.effects), c)]_vars

\* C9, reached: one event granted the same flag twice to a character that
\* held another flag, and the flag set has gained one element
C9_Witness ==
    /\ last.op = "record_event" /\ ~panicked
    /\ last.arg[1].effects = <<KnowledgeGained(0, "a"), KnowledgeGained(0, "a")>>
    /\ mv.next_event_id = 2
    /\ mv.events[0].effects = <<KnowledgeGained(0, "b")>>
    /\ mv.characters[0].knowledge_flags = {"a", "b"}

\* C10: when character C owns exactly the memory returned by
\* create_witnessed_memory(E, T, C), prop_memory_consistency returns success
\* if and only if E is an event whose participants include C
C10_WitnessedIffParticipant ==
    \A c \in DOMAIN mv.characters :
        \A x \in DOMAIN mv.memories :
            (/\ mv.characters[c].memories = {x}
             /\ mv.memories[x].provenance = [kind |-> "Witnessed", character |-> c]
             /\ \A d \in DOMAIN mv.characters \ {c} : mv.characters[d].memories = {}) =>
                (prop_memory_consistency(mv) = "Ok"
                    <=> /\ mv.memories[x].event \in DOMAIN mv.events
                        /\ c \in mv.events[mv.memories[x].event].participants)

\* the effect list carries a resurrection, or a death, of character c
Resurrects(effects, c) ==
    \E j \in 1..Len(effects) :
        effects[j].kind = "CharacterResurrection" /\ effects[j].character = c
Kills(effects, c) ==
    \E j \in 1..Len(effects) :
        effects[j].kind = "CharacterDeath" /\ effects[j].character = c

\* a death of c is stored, and neither that event nor any recorded after it
\* resurrects c
DeadSince(m, c) ==
    \E d \in DOMAIN m.events :
        /\ Kills(m.events[d].effects, c)
        /\ \A x \in DOMAIN m.events :
              x >= d => ~Resurrects(m.events[x].effects, c)

\* C11: once a death of X is recorded and no resurrection of X follows it,
\* recording an event that lists X and does not resurrect X makes
\* prop_death_finality return failure
C11_DeadParticipantFails ==
    [][Returned("record_event") =>
          LET event == last'.arg[1]
          IN  \A c \in event.participants \cap DOMAIN mv.characters :
                 (DeadSince(mv, c) /\ ~Resurrects(event.effects, c)) =>
                    prop_death_finality(mv') = "death_finality"]_vars

\* the store holds a life of c on the timeline c was created in and is a
\* member of: events listing c, the last two of which are its death and its
\* resurrection
LifeStory(m, c) ==
    LET t == m.characters[c].native_timeline
        n == m.next_event_id
    IN  /\ m.characters[c].current_timeline = t
        /\ t \in DOMAIN m.timelines
        /\ c \in m.timelines[t].characters
        /\ n >= 2
        /\ DOMAIN m.events = 0..(n - 1)
        /\ \A x \in DOMAIN m.events :
              /\ m.events[x].timeline = t
              /\ m.events[x].participants = {c}
              /\ m.events[x].effects =
                    IF x = n - 2 THEN <<CharacterDeath(c)>>
                    ELSE IF x = n - 1 THEN <<CharacterResurrection(c, "Gate")>>
                    ELSE << >>

\* C12: on one timeline, for a character created in it, events listing the
\* character, then its death, then its resurrection by a named mechanism
\* leave prop_death_finality and validate_all_properties returning success
\* and the character alive
C12_ResurrectedLifeValidates ==
    \A c \in DOMAIN mv.characters :
        (~panicked /\ LifeStory(mv, c)) =>
            /\ prop_death_finality(mv) = "Ok"
            /\ validate_all_properties(mv) = "Ok"
            /\ mv.characters[c].alive

\* the liveness table the replay of branch b starts from
BranchStartTable(m, b) ==
    MapGet(AliveState(m, b - 1).state, Unwrap(m.timelines[b].parent), EmptyMap)

\* C17: an event recorded on the parent after the branch was created does
\* not change the liveness table the branch's replay starts from
C17_BranchTableFixedAtBranchTime ==
    [][Returned("record_event") =>
          \A b \in DOMAIN mv.timelines :
             (/\ IsSome(mv.timelines[b].parent)
              /\ Unwrap(mv.timelines[b].parent) = last'.arg[1].timeline
              /\ b # last'.arg[1].timeline) =>
                BranchStartTable(mv', b) = BranchStartTable(mv, b)]_vars

\* character c owns a memory that the store lacks, or one sourced in a
\* timeline other than its current one while it lacks TimelinePerception
PerceptionOffender(m, c) ==
    \E x \in m.characters[c].memories :
        \/ x \notin DOMAIN m.memories
        \/ /\ m.memories[x].source_timeline # m.characters[c].current_timeline
           /\ "TimelinePerception" \notin m.characters[c].abilities

\* C13: prop_timeline_perception fails exactly when some character is such
\* an owner; moving a character away from the timeline one of its memories
\* was sourced in turns a passing check into a failing one, and granting
\* that character TimelinePerception makes the check pass again
C13_PerceptionFailsExactlyForOffenders ==
    [][/\ prop_timeline_perception(mv') = "timeline_perception"
            <=> \E c \in DOMAIN mv'.characters : PerceptionOffender(mv', c)
       /\ (/\ last'.op = "current_timeline"
           /\ prop_timeline_perception(mv) = "Ok"
           /\ "TimelinePerception" \notin mv.characters[last'.arg[1]].abilities
           /\ \E x \in mv.characters[last'.arg[1]].memories :
                 /\ x \in DOMAIN mv.memories
                 /\ mv.memories[x].source_timeline # last'.arg[2]) =>
             prop_timeline_perception(mv') = "timeline_perception"
       /\ (/\ last'.op = "apply_narrative_action"
           /\ \E c \in DOMAIN mv.characters :
                 /\ "TimelinePerception" \in mv'.characters[c].abilities
                 /\ mv'.characters[c].memories \subseteq DOMAIN mv'.memories
                 /\ \A d \in DOMAIN mv.characters \ {c} : ~PerceptionOffender(mv, d)) =>
             prop_timeline_perception(mv') = "Ok"]_vars

\* C13, reached: character 0 moved to the branch with a memory sourced in
\* the root, the check failed, and the grant of TimelinePerception has just
\* made it pass
C13_Witness ==
    /\ last.op = "apply_narrative_action"
    /\ mv.characters[0].current_timeline = 1
    /\ mv.characters[0].memories = {0}
    /\ 0 \in DOMAIN mv.memories /\ mv.memories[0].source_timeline = root_timeline
    /\ "TimelinePerception" \in mv.characters[0].abilities
    /\ "TimelinePerception" \notin mv.characters[1].abilities
    /\ prop_timeline_perception(mv) = "Ok"

\* C14: prop_causality_justification returns success if and only if every
\* stored event with a causality violation names a mechanism and lies on a
\* timeline marked causality_stable = false
C14_CausalityIffJustified ==
    prop_causality_justification(mv) = "Ok"
        <=> \A id \in DOMAIN mv.events :
               IsSome(mv.events[id].causality_violation) =>
                  /\ Unwrap(mv.events[id].causality_violation).mechanism # ""
                  /\ mv.events[id].timeline \in DOMAIN mv.timelines
                  /\ ~mv.timelines[mv.events[id].timeline].causality_stable

\* C15: validate_all_properties succeeds if and only if all seven checks
\* succeed, and otherwise returns the failure of the first failing check in
\* the order memory consistency, timeline perception, causality
\* justification, relationship consistency, death finality, knowledge
\* flags, emotional validity, whatever the later checks return
C15_FirstFailureInFixedOrder ==
    LET r == validate_all_properties(mv)
    IN  /\ r = "Ok" <=>
              /\ prop_memory_consistency(mv) = "Ok"
              /\ prop_timeline_perception(mv) = "Ok"
              /\ prop_causality_justification(mv) = "Ok"
              /\ prop_relationship_consistency(mv) = "Ok"
              /\ prop_death_finality(mv) = "Ok"
              /\ prop_knowledge_flags(mv) = "Ok"
              /\ prop_emotional_state_validity(mv) = "Ok"
        /\ r = IF prop_memory_consistency(mv) # "Ok" THEN "memory_consistency"
               ELSE IF prop_timeline_perception(mv) # "Ok" THEN "timeline_perception"
               ELSE IF prop_causality_justification(mv) # "Ok"
                    THEN "causality_justification"
               ELSE IF prop_relationship_consistency(mv) # "Ok"
                    THEN "relationship_consistency"
               ELSE IF prop_death_finality(mv) # "Ok" THEN "death_finality"
               ELSE IF prop_knowledge_flags(mv) # "Ok" THEN "knowledge_flags"
               ELSE IF prop_emotional_state_validity(mv) # "Ok"
                    THEN "emotional_state_validity"
               ELSE "Ok"

\* C15, reached: the first three checks pass, relationship consistency and
\* death finality both fail, and the relationship failure is returned
C15_Witness ==
    /\ prop_causality_justification(mv) = "Ok"
    /\ prop_relationship_consistency(mv) = "relationship_consistency"
    /\ prop_death_finality(mv) = "death_finality"
    /\ validate_all_properties(mv) = "relationship_consistency"

\* flag was granted to character c by an event of timeline t's event list
GrantedOn(m, t, c, flag) ==
    \E i \in 1..Len(m.timelines[t].events) :
        LET id == m.timelines[t].events[i]
        IN  /\ id \in DOMAIN m.events
            /\ \E j \in 1..Len(m.events[id].effects) :
                  m.events[id].effects[j] = KnowledgeGained(c, flag)

\* the stored events only grant knowledge, each on a stored timeline that is
\* the current timeline of the character it grants to
OnlyGrantsOnCurrentTimeline(m) ==
    \A id \in DOMAIN m.events :
        /\ m.events[id].timeline \in DOMAIN m.timelines
        /\ \A j \in 1..Len(m.events[id].effects) :
              LET effect == m.events[id].effects[j]
              IN  /\ effect.kind = "KnowledgeGained"
                  /\ HasCharacter(m, effect.character) =>
                        m.characters[effect.character].current_timeline
                            = m.events[id].timeline

\* C16: prop_knowledge_flags succeeds if and only if every flag of every
\* character whose current timeline is stored was granted to it by an event
\* of that timeline's list; after KnowledgeGained events recorded on the
\* characters' current timeline the check passes and each character holds
\* exactly the flags granted to it
C16_KnowledgeFlagsJustified ==
    /\ prop_knowledge_flags(mv) = "Ok" <=>
          \A c \in DOMAIN mv.characters :
             mv.characters[c].current_timeline \in DOMAIN mv.timelines =>
                \A flag \in mv.characters[c].knowledge_flags :
                   GrantedOn(mv, mv.characters[c].current_timeline, c, flag)
    /\ (~panicked /\ OnlyGrantsOnCurrentTimeline(mv)) =>
          /\ prop_knowledge_flags(mv) = "Ok"
          /\ \A c \in DOMAIN mv.characters :
                IF mv.characters[c].current_timeline \in DOMAIN mv.timelines
                THEN \A flag \in {"a", "b"} :
                        flag \in mv.characters[c].knowledge_flags
                           <=> GrantedOn(mv, mv.characters[c].current_timeline,
                                         c, flag)
                ELSE mv.characters[c].knowledge_flags = {}

\* C16, reached: two events on the root granted character 0 two flags, it
\* holds both and the check passes
C16_Witness ==
    /\ last.op = "record_event"
    /\ OnlyGrantsOnCurrentTimeline(mv)
    /\ mv.characters[0].current_timeline = root_timeline
    /\ mv.characters[0].knowledge_flags = {"a", "b"}
    /\ prop_knowledge_flags(mv) = "Ok"

\* the emotional state of character 0, and its goal g
Mood(m) == m.characters[0].emotional_state
GoalG(m) == Mood(m).goals["g"]

\* C18: appraising the incremental belief (congruence 1.0, likelihood 1.0)
\* takes the non-maintenance goal from its initial likelihood 0.5 to 1.0;
\* at 1.0 every further such appraisal leaves the likelihood at 1.0 and
\* adds or increases no emotion
C18_IncrementalBeliefSaturates ==
    [][(/\ Returned("record_event")
        /\ last'.arg[1].effects = <<AppraisalTrigger(0, BeliefIncremental)>>
        /\ "g" \in DOMAIN Mood(mv).goals
        /\ ~GoalG(mv).is_maintenance) =>
          /\ GoalG(mv).likelihood = Half => GoalG(mv').likelihood = Scale
          /\ GoalG(mv).likelihood = Scale =>
                /\ GoalG(mv').likelihood = Scale
                /\ Mood(mv').emotions = Mood(mv).emotions]_vars

\* C18, reached: the goal was added and the belief appraised three times;
\* the likelihood is 1.0 and only the first appraisal left an emotion
C18_Witness ==
    /\ last.op = "record_event" /\ ~panicked
    /\ mv.next_event_id = 4
    /\ mv.events[0].effects = <<AddGoal(0, Goal1)>>
    /\ \A x \in 1..3 :
          mv.events[x].effects = <<AppraisalTrigger(0, BeliefIncremental)>>
    /\ GoalG(mv).likelihood = Scale
    /\ Mood(mv).emotions = <<[emotion_type |-> "Joy", intensity |-> Half]>>

C20_TradesKeepStoreValid ==
    /\ validate_all_properties(mv) = "Ok"
    /\ \A id \in DOMAIN mv.events :
          \A j \in 1..Len(mv.events[id].effects) :
             LET effect == mv.events[id].effects[j]
             IN  effect.kind = "MemoryTransfer" =>
                    effect.memory \in mv.characters[effect.to].memories
    /\ \A c \in DOMAIN mv.characters :
          mv.characters[c].memories \subseteq DOMAIN mv.memories

\* C20, reached: two trades of different ids from character 0 to character
\* 1, both ids owned by the recipient and stored
C20_Witness ==
    /\ mv.next_event_id = 2
    /\ \A id \in DOMAIN mv.events :
          /\ mv.events[id].effects[1].kind = "MemoryTransfer"
          /\ mv.events[id].effects[1].to = 1
          /\ mv.events[id].effects[1].from = Some(0)
    /\ mv.characters[1].memories = {3, 7}
    /\ {3, 7} \subseteq DOMAIN mv.memories
    /\ mv.characters[0].alive /\ mv.characters[1].alive

\* an owned memory id the memory check objects to, by the clause that
\* objects
AbsentOwned(m, c, x) == x \in m.characters[c].memories /\ x \notin DOMAIN m.memories
OwnedOfKind(m, c, x, kind) ==
    /\ x \in m.characters[c].memories
    /\ x \in DOMAIN m.memories
    /\ m.memories[x].provenance.kind = kind
ForgedByNobody(m, c, x) ==
    OwnedOfKind(m, c, x, "Forged") /\ m.memories[x].provenance.forger = ""
CompoundOfAbsent(m, c, x) ==
    /\ OwnedOfKind(m, c, x, "Compound")
    /\ \E i \in 1..Len(m.memories[x].provenance.sources) :
          m.memories[x].provenance.sources[i] \notin DOMAIN m.memories
WitnessNotPresent(m, c, x) ==
    /\ OwnedOfKind(m, c, x, "Witnessed")
    /\ m.memories[x].event \in DOMAIN m.events
    /\ m.memories[x].provenance.character
          \notin m.events[m.memories[x].event].participants

\* C21: prop_memory_consistency fails when some character owns an id absent
\* from the store, a Forged memory with an empty forger or a Compound memory
\* with an absent source; every failure is due to an owned memory that is
\* absent, Forged, Compound or Witnessed, so Traded memories and memories
\* nobody owns never cause one
C21_MemoryCheckFailsForOwnedOffenders ==
    LET r == prop_memory_consistency(mv)
        Owned == {<<c, x>> \in (DOMAIN mv.characters) \X {0, 1} :
                     x \in mv.characters[c].memories}
    IN  /\ (\E o \in Owned :
               \/ AbsentOwned(mv, o[1], o[2])
               \/ ForgedByNobody(mv, o[1], o[2])
               \/ CompoundOfAbsent(mv, o[1], o[2])) => r # "Ok"
        /\ r # "Ok" =>
              \E o \in Owned :
                 \/ AbsentOwned(mv, o[1], o[2])
                 \/ ForgedByNobody(mv, o[1], o[2])
                 \/ CompoundOfAbsent(mv, o[1], o[2])
                 \/ WitnessNotPresent(mv, o[1], o[2])

\* C21, reached: character 0 owns a Traded memory and a Compound memory of
\* it, nobody owns the Forged memory without a forger that was stored and
\* replaced, and the check passes
C21_Witness ==
    /\ prop_memory_consistency(mv) = "Ok"
    /\ mv.characters[0].memories = {0, 1}
    /\ mv.characters[1].memories = {}
    /\ DOMAIN mv.memories = {0, 1}
    /\ mv.memories[0].provenance.kind = "Traded"
    /\ mv.memories[1].provenance = [kind |-> "Compound", sources |-> <<0>>]
    /\ last.op = "memories.insert"

\* C21, reached: the only owned memory is a Compound memory whose second
\* source is absent, and the check fails
C21_WitnessCompound ==
    /\ prop_memory_consistency(mv) # "Ok"
    /\ DOMAIN mv.memories = {0}
    /\ mv.memories[0].provenance = [kind |-> "Compound", sources |-> <<0, 1>>]
    /\ mv.characters[0].memories = {0}
    /\ mv.characters[1].memories = {}

\* the memory sets of the characters of m other than those in skip
MemoriesExcept(m, skip) ==
    [c \in (DOMAIN m.characters) \ skip |-> m.characters[c].memories]

\* C22 (as stated): a MemoryTransfer to an existing character adds the
\* memory id to the recipient's set and leaves the set of `from` and of
\* every other character unchanged, for any `from`
C22_TransferKeepsFromSet ==
    [][Returned("record_event") =>
          LET event == last'.arg[1]
          IN  \A i \in 1..Len(event.effects) :
                 LET effect == event.effects[i]
                     before == AfterEffects(mv, event, i - 1)
                     after == AfterEffects(mv, event, i)
                 IN  (effect.kind = "MemoryTransfer" /\ HasCharacter(before, effect.to)) =>
                        /\ after.characters[effect.to].memories =
                              before.characters[effect.to].memories \cup {effect.memory}
                        /\ \A c \in DOMAIN before.characters :
                              (c # effect.to \/ effect.from = Some(c)) =>
                                 after.characters[c].memories =
                                    before.characters[c].memories]_vars

\* C22 (amended): the same with the set of `from` left unchanged when
\* `from` is not the recipient itself; nothing but the recipient's set
\* changes in the store
C22_TransferCopiesToRecipient ==
    [][Returned("record_event") =>
          LET event == last'.arg[1]
          IN  \A i \in 1..Len(event.effects) :
                 LET effect == event.effects[i]
                     before == AfterEffects(mv, event, i - 1)
                     after == AfterEffects(mv, event, i)
                 IN  (effect.kind = "MemoryTransfer" /\ HasCharacter(before, effect.to)) =>
                        /\ after.characters[effect.to].memories =
                              before.characters[effect.to].memories \cup {effect.memory}
                        /\ MemoriesExcept(after, {effect.to}) =
                              MemoriesExcept(before, {effect.to})
                        /\ after.memories = before.memories]_vars

\* C22, reached: character 0, who owns memory 3, transferred it to character
\* 1; both own memory 3 afterwards
C22_Witness ==
    /\ last.op = "record_event" /\ ~panicked
    /\ last.arg[1].effects = <<MemoryTransfer(3, Some(0), 1)>>
    /\ mv.characters[0].memories = {3}
    /\ mv.characters[1].memories = {3}
    /\ mv.events[0].effects = <<MemoryTransfer(3, None, 0)>>

\* C23: can_perceive_timeline(c, t) returns true exactly when c is in the
\* store and either stands on t or holds TimelinePerception; the timeline
\* set of the store is not consulted
C23_PerceivesOwnTimelineOrByAbility ==
    last.op = "can_perceive_timeline" =>
        LET c == last.arg[1]
            t == last.arg[2]
            expected ==
                /\ c \in DOMAIN mv.characters
                /\ \/ mv.characters[c].current_timeline = t
                   \/ "TimelinePerception" \in mv.characters[c].abilities
        IN  /\ last.ret = Some(expected)
            /\ c \notin DOMAIN mv.characters => last.ret = Some(FALSE)

\* C23, reached: a character that stands on a timeline the store does not
\* hold, with Precognition only, is told it perceives that timeline
C23_Witness ==
    /\ last = Call("can_perceive_timeline", <<0, MissingId>>, Some(TRUE))
    /\ MissingId \notin DOMAIN mv.timelines
    /\ mv.characters[0].abilities = {"Precognition"}

\* C23, reached: a character with TimelinePerception is told it perceives a
\* timeline it does not stand on
C23_WitnessAbility ==
    /\ last = Call("can_perceive_timeline", <<1, 1>>, Some(TRUE))
    /\ mv.characters[1].current_timeline = 0
    /\ "TimelinePerception" \in mv.characters[1].abilities

\* C24: has_memory_of_event(c, e) returns true exactly when c is in the
\* store and owns an id that the store holds with event e; owned ids the
\* store lacks never count
C24_RemembersThroughStoredMemories ==
    last.op = "has_memory_of_event" =>
        LET c == last.arg[1]
            e == last.arg[2]
            stored == IF c \in DOMAIN mv.characters
                      THEN mv.characters[c].memories \cap DOMAIN mv.memories
                      ELSE {}
        IN  /\ last.ret = Some(\E x \in stored : mv.memories[x].event = e)
            /\ stored = {} => last.ret = Some(FALSE)

\* C24, reached: character 1 owns only an id the store lacks, while the
\* store holds an unowned memory of event 1, and is told it has no memory
\* of event 1
C24_Witness ==
    /\ last = Call("has_memory_of_event", <<1, 1>>, Some(FALSE))
    /\ mv.characters[1].memories # {}
    /\ mv.characters[1].memories \cap DOMAIN mv.memories = {}
    /\ \E x \in DOMAIN mv.memories : mv.memories[x].event = 1

\* C24, reached: character 0 owns a stored memory of event 1 and is told so
C24_WitnessTrue ==
    /\ last = Call("has_memory_of_event", <<0, 1>>, Some(TRUE))
    /\ \E x \in mv.characters[0].memories \cap DOMAIN mv.memories :
          mv.memories[x].event = 1

\* the emotional state of character 0 around an appraise call, the goals
\* the call's belief names, and the belief without its i-th goal
Frozen(goal) ==
    ~goal.is_maintenance /\ (goal.likelihood >= Scale \/ goal.likelihood <= -Scale)
AtExtreme(goal) == goal.likelihood >= Scale \/ goal.likelihood <= -Scale
KnownPositions(es, belief) ==
    {i \in 1..Len(belief.affected_goal_names) :
        belief.affected_goal_names[i] \in DOMAIN es.goals}
Drop(s, i) == SubSeq(s, 1, i - 1) \o SubSeq(s, i + 1, Len(s))
Without(belief, i) ==
    [belief EXCEPT !.affected_goal_names = Drop(@, i),
                   !.goal_congruences = Drop(@, i)]
\* the likelihood the documented rule gives
RuleLikelihood(old, belief, congruence) ==
    IF belief.is_incremental
    THEN LET next == old + FMul(belief.likelihood, congruence)
         IN  IF next < -Scale THEN -Scale ELSE IF next > Scale THEN Scale ELSE next
    ELSE (FMul(congruence, belief.likelihood) + Scale) \div 2

\* C25: an appraise call leaves a non-maintenance goal whose likelihood is
\* at 1 or -1 unchanged whatever the belief says about it, with delta 0 and
\* no emotion for it (the call does what it does without that goal in the
\* belief); a maintenance goal at 1 or -1 gets the likelihood the belief gives
C25_ExtremeGoalFrozenUnlessMaintenance ==
    [][Returned("appraise") =>
          LET belief == last'.arg[2]
              es == Mood(mv)
          IN  \A i \in KnownPositions(es, belief) :
                 LET name == belief.affected_goal_names[i]
                     goal == es.goals[name]
                     congruence == belief.goal_congruences[i]
                 IN  /\ Frozen(goal) =>
                        /\ Mood(mv').goals[name] = goal
                        /\ static_calculate_delta_likelihood(
                               goal, congruence, belief.likelihood,
                               belief.is_incremental).delta = 0
                        /\ Mood(mv') = appraise(es, Without(belief, i)).es
                        /\ Len(belief.affected_goal_names) = 1 => Mood(mv') = es
                     /\ (AtExtreme(goal) /\ goal.is_maintenance) =>
                           Mood(mv').goals[name].likelihood =
                              RuleLikelihood(goal.likelihood, belief, congruence)]_vars

\* C25, reached: goal g stands at -1.0 after an incremental belief of
\* likelihood 1.0 and congruence 1.0 about it, so the call found it at -1.0
\* and left it there
C25_Witness ==
    /\ last = Call("appraise", <<0, Belief(Scale, <<"g">>, <<Scale>>, TRUE)>>, None)
    /\ ~panicked
    /\ GoalG(mv).likelihood = -Scale

\* C25, reached: the maintenance goal k, taken to 1.0 and then lowered by an
\* incremental belief
C25_WitnessMaintenance ==
    /\ last = Call("appraise", <<0, Belief(Half, <<"k">>, <<-Scale>>, TRUE)>>, None)
    /\ Mood(mv).goals["k"].likelihood = Half
    /\ \E i \in 1..Len(Mood(mv).emotions) :
          Mood(mv).emotions[i].emotion_type = "Distress"

\* what the documented rule makes of a belief: per goal name that the state
\* knows, in the order of the belief, the utility, new - old and new, with
\* the congruence at the name's own position
RECURSIVE RuleUpdates(_, _, _)
RuleUpdates(es, belief, i) ==
    IF i > Len(belief.affected_goal_names) THEN << >>
    ELSE LET name == belief.affected_goal_names[i]
         IN  IF name \notin DOMAIN es.goals
             THEN RuleUpdates(es, belief, i + 1)
             ELSE LET goal == es.goals[name]
                      new == IF Frozen(goal) THEN goal.likelihood
                             ELSE RuleLikelihood(goal.likelihood, belief,
                                                 belief.goal_congruences[i])
                  IN  <<<<goal.utility, new - goal.likelihood, new>>>>
                         \o RuleUpdates(es, belief, i + 1)

\* C26: appraise gives every goal that the belief names, the state knows and
\* is not frozen the likelihood clamp(old + likelihood * congruence, -1, 1)
\* for an incremental belief and (congruence * likelihood + 1) / 2 for an
\* absolute one, with the congruence at the name's position; unknown names
\* are skipped, other goals are untouched, and the emotions are those of
\* delta = new - old
C26_LikelihoodRuleByPosition ==
    [][Returned("appraise") =>
          LET belief == last'.arg[2]
              es == Mood(mv)
              named == {belief.affected_goal_names[i] : i \in KnownPositions(es, belief)}
          IN  /\ DOMAIN Mood(mv').goals = DOMAIN es.goals
              /\ \A i \in KnownPositions(es, belief) :
                    LET name == belief.affected_goal_names[i]
                    IN  ~Frozen(es.goals[name]) =>
                           Mood(mv').goals[name] =
                              [es.goals[name] EXCEPT !.likelihood =
                                  RuleLikelihood(@, belief, belief.goal_congruences[i])]
              /\ \A name \in (DOMAIN es.goals) \ named :
                    Mood(mv').goals[name] = es.goals[name]
              /\ Mood(mv').emotions =
                    EvaluateAll(es, RuleUpdates(es, belief, 1), 1).emotions]_vars

\* C26, reached: the belief names the unknown goal z first and g second; g
\* went from 0.5 to 0.0 by the second congruence, -0.5, and Distress of
\* intensity 0.5 was emitted
C26_Witness ==
    /\ last = Call("appraise",
                   <<0, Belief(Scale, <<"z", "g">>, <<Scale, -Half>>, TRUE)>>, None)
    /\ ~panicked
    /\ "z" \notin DOMAIN Mood(mv).goals
    /\ GoalG(mv).likelihood = 0
    /\ Mood(mv).emotions = <<[emotion_type |-> "Distress", intensity |-> Half]>>

\* the intensity an emotion list holds for a type, and the types the
\* documented table emits for utility u, delta d and resulting likelihood L
RECURSIVE IntensityOf(_, _, _)
IntensityOf(emotions, t, i) ==
    IF i > Len(emotions) THEN 0
    ELSE (IF emotions[i].emotion_type = t THEN emotions[i].intensity ELSE 0)
         + IntensityOf(emotions, t, i + 1)
TypesOf(emotions) == {emotions[i].emotion_type : i \in 1..Len(emotions)}
TableTypes(u, d, L) ==
    IF 0 < L /\ L < Scale
    THEN IF (u >= 0 /\ d >= 0) \/ (u < 0 /\ d < 0) THEN {"Hope"} ELSE {"Fear"}
    ELSE IF L = Scale
    THEN IF u >= 0
         THEN {"Joy"} \cup (IF d < Half THEN {"Satisfaction"} ELSE {})
         ELSE {"Distress"} \cup (IF d < Half THEN {"FearConfirmed"} ELSE {})
    ELSE IF u >= 0
         THEN {"Distress"} \cup (IF d > Half THEN {"Disappointment"} ELSE {})
         ELSE {"Joy"} \cup (IF d > Half THEN {"Relief"} ELSE {})

\* C27: an appraise call about one known goal of utility u that moves the
\* likelihood by d to L in [0, 1] adds |u * d| to the intensity of each type
\* of the table (Hope or Fear inside (0, 1); Joy or Distress with
\* Satisfaction or FearConfirmed at 1; Distress or Joy with Disappointment
\* or Relief at 0) and to no other type; when |u * d| = 0 the emotions are
\* unchanged
C27_EmotionTable ==
    [][(/\ Returned("appraise")
        /\ Len(last'.arg[2].affected_goal_names) = 1
        /\ last'.arg[2].affected_goal_names[1] \in DOMAIN Mood(mv).goals) =>
          LET name == last'.arg[2].affected_goal_names[1]
              u == Mood(mv).goals[name].utility
              L == Mood(mv').goals[name].likelihood
              d == L - Mood(mv).goals[name].likelihood
              intensity == AbsInt(FMul(u, d))
          IN  /\ intensity = 0 => Mood(mv').emotions = Mood(mv).emotions
              /\ (0 <= L /\ L <= Scale) =>
                    \A t \in TableTypes(u, d, L) \cup TypesOf(Mood(mv).emotions)
                             \cup TypesOf(Mood(mv').emotions) :
                       IntensityOf(Mood(mv').emotions, t, 1) =
                          IntensityOf(Mood(mv).emotions, t, 1)
                          + (IF t \in TableTypes(u, d, L) THEN intensity ELSE 0)]_vars

\* C27, reached: the unwanted goal k was at -0.75 and an absolute belief
\* took it to 0.0; Relief and Joy of intensity 0.75 were emitted
C27_Witness ==
    /\ last = Call("appraise", <<0, Belief(Scale, <<"k">>, <<-Scale>>, FALSE)>>, None)
    /\ Mood(mv).goals["k"].likelihood = 0
    /\ IntensityOf(Mood(mv).emotions, "Relief", 1) = 3 * (Scale \div 4)
    /\ IntensityOf(Mood(mv).emotions, "Joy", 1) >= 3 * (Scale \div 4)

\* C27, reached: the wanted goal g went from 0.75 to 1.0; Satisfaction and
\* Joy were emitted on top of the Hope of the way to 0.75
C27_WitnessSatisfaction ==
    /\ last.op = "appraise"
    /\ GoalG(mv).likelihood = Scale
    /\ IntensityOf(Mood(mv).emotions, "Satisfaction", 1) = Scale \div 4
    /\ IntensityOf(Mood(mv).emotions, "Joy", 1) = Scale \div 4
    /\ IntensityOf(Mood(mv).emotions, "Hope", 1) = Scale \div 4

\* C28: whatever beliefs with likelihood in [0, 1] and congruences in
\* [-1, 1] are appraised, the likelihood of every goal created at 0.5 stays
\* within [-1, 1]
C28_LikelihoodWithinMinusOneAndOne ==
    \A c \in DOMAIN mv.characters :
       \A name \in DOMAIN mv.characters[c].emotional_state.goals :
          LET L == mv.characters[c].emotional_state.goals[name].likelihood
          IN  -Scale <= L /\ L <= Scale

\* C28, reached: goal k stands at -1.0, held there by the clamp when an
\* incremental belief of -1.0 found it at -0.5, and goal g stands at 1.0
C28_Witness ==
    /\ last = Call("appraise", <<0, Belief(Scale, <<"k">>, <<-Scale>>, TRUE)>>, None)
    /\ Mood(mv).goals["k"].likelihood = -Scale
    /\ GoalG(mv).likelihood = Scale

\* C29: after any appraise calls with beliefs of likelihood in [0, 1] and
\* congruences in [-1, 1], the likelihood of every goal lies in the range
\* 0.0 to 1.0 that the Goal type documents
C29_LikelihoodWithinDocumentedRange ==
    \A c \in DOMAIN mv.characters :
       \A name \in DOMAIN mv.characters[c].emotional_state.goals :
          LET L == mv.characters[c].emotional_state.goals[name].likelihood
          IN  0 <= L /\ L <= Scale

\* every emotion type has at most one entry and every intensity is positive
OneEntryPerType(emotions) ==
    /\ \A i, j \in 1..Len(emotions) :
          emotions[i].emotion_type = emotions[j].emotion_type => i = j
    /\ \A i \in 1..Len(emotions) : emotions[i].intensity > 0

\* C30: after every appraise and every decay by a factor >= 0, the emotion
\* list of each character has at most one entry per type and only positive
\* intensities; an appraise call keeps the entries it finds in place with
\* intensities no smaller, and appends entries of new types only
C30_OneEntryPerTypeAllPositive ==
    [][/\ \A c \in DOMAIN mv'.characters :
             OneEntryPerType(mv'.characters[c].emotional_state.emotions)
       /\ Returned("appraise") =>
             LET old == Mood(mv).emotions
                 new == Mood(mv').emotions
             IN  /\ Len(new) >= Len(old)
                 /\ \A i \in 1..Len(old) :
                       /\ new[i].emotion_type = old[i].emotion_type
                       /\ new[i].intensity >= old[i].intensity
                 /\ \A i \in (Len(old) + 1)..Len(new) :
                       new[i].emotion_type \notin TypesOf(old)]_vars

\* C30, reached: two steps down from 0.75 emitted Fear twice; the list
\* holds one Fear entry of intensity 0.5
C30_Witness ==
    /\ last = Call("appraise", <<0, Belief(Half, <<"g">>, <<-Half>>, TRUE)>>, None)
    /\ GoalG(mv).likelihood = Scale \div 4
    /\ Mood(mv).emotions = <<[emotion_type |-> "Fear", intensity |-> Half]>>

\* C30, reached: a decay by 0.004 kept an entry just above the threshold and
\* a decay by 2.0 doubled it
C30_WitnessDecay ==
    /\ last = Call("decay_emotions", <<2 * Scale>>, None)
    /\ Mood(mv).emotions = <<[emotion_type |-> "Fear", intensity |-> 4]>>

\* an emotion list with every intensity multiplied by factor, and the store
\* with every character's emotion list taken from another store
Scaled(emotions, factor) ==
    [i \in 1..Len(emotions) |-> [emotions[i] EXCEPT !.intensity = FMul(@, factor)]]
AboveThreshold(e) == e.intensity > DecayThreshold
WithEmotionsOf(m, other) ==
    [m EXCEPT !.characters =
        [c \in DOMAIN @ |->
            [@[c] EXCEPT !.emotional_state.emotions =
                other.characters[c].emotional_state.emotions]]]

\* C31: decay_emotions(factor) leaves every character with its emotions
\* multiplied by factor, without the entries that are then <= 0.001 and with
\* the others in their order, and changes nothing else in the store
C31_DecayScalesAndDropsSmall ==
    [][Returned("decay_emotions") =>
          LET factor == last'.arg[1]
          IN  /\ DOMAIN mv'.characters = DOMAIN mv.characters
              /\ \A c \in DOMAIN mv.characters :
                    mv'.characters[c].emotional_state.emotions =
                       SelectSeq(Scaled(mv.characters[c].emotional_state.emotions,
                                        factor), AboveThreshold)
              /\ WithEmotionsOf(mv', mv) = mv]_vars

\* C31, reached: a decay by 0.004 removed the entries of 0.25 of both
\* characters and kept character 0's entry of 0.5, now 0.002, between them
C31_Witness ==
    /\ last = Call("decay_emotions", <<Scale \div 250>>, None)
    /\ mv.characters[0].emotional_state.emotions =
          <<[emotion_type |-> "Hope", intensity |-> 2]>>
    /\ mv.characters[1].emotional_state.emotions = << >>
    /\ mv.characters[1].emotional_state.goals["g"].likelihood = 3 * (Scale \div 4)

\* C32: whatever finite value the gain field holds, for emotions with
\* non-negative intensities each axis of get_pad lies strictly between -1
\* and 1
C32_PadInsideForAnyGain ==
    \A c \in DOMAIN mv.characters :
       LET es == mv.characters[c].emotional_state
       IN  (\A i \in 1..Len(es.emotions) : es.emotions[i].intensity >= 0) =>
              \A axis \in 1..3 :
                 LET v == get_pad(es)[axis]
                 IN  v.den # 0 /\ AbsInt(v.num) < AbsInt(v.den)

\* C33: every timeline that has a parent has an id strictly greater than
\* its parent's id, whatever parent ids create_timeline_branch was given
C33_BranchIdAboveParentId ==
    \A t \in DOMAIN mv.timelines :
       IsSome(mv.timelines[t].parent) => Unwrap(mv.timelines[t].parent) < t

\* every listed event id is stored with the listing timeline in its
\* timeline field, is listed once and in one list only, and every list
\* ascends
EventListsConsistent(m) ==
    /\ \A t \in DOMAIN m.timelines :
          LET events == m.timelines[t].events
          IN  \A i \in 1..Len(events) :
                 /\ events[i] \in DOMAIN m.events
                 /\ m.events[events[i]].timeline = t
                 /\ \A j \in 1..Len(events) : i < j => events[i] < events[j]
    /\ \A t1, t2 \in DOMAIN m.timelines :
          \A i \in 1..Len(m.timelines[t1].events), j \in 1..Len(m.timelines[t2].events) :
             m.timelines[t1].events[i] = m.timelines[t2].events[j] => t1 = t2 /\ i = j

\* C34: after every store mutation that returns, each timeline's event list
\* holds only ids of stored events of that timeline, no id twice or in two
\* lists, in ascending order, and the list a timeline had before the call is
\* a prefix of the list it has after
C34_EventListsMatchEventMap ==
    [][~panicked' =>
          /\ EventListsConsistent(mv')
          /\ \A t \in DOMAIN mv.timelines :
                /\ t \in DOMAIN mv'.timelines
                /\ Len(mv'.timelines[t].events) >= Len(mv.timelines[t].events)
                /\ \A i \in 1..Len(mv.timelines[t].events) :
                      mv'.timelines[t].events[i] = mv.timelines[t].events[i]]_vars

\* C34, reached: the root timeline lists events 0 and 1, the first of them
\* recorded under a foreign id, next to a branch with a list of its own
C34_Witness ==
    /\ ~panicked
    /\ mv.timelines[root_timeline].events = <<0, 1>>
    /\ mv.events[0].effects = <<CharacterDeath(0)>>
    /\ mv.events[0].id = 0
    /\ 1 \in DOMAIN mv.timelines
    /\ mv.timelines[1].events = << >>

\* C35: a branch gets the character set its parent has at the time of the
\* call; create_character afterwards adds the new id to the set of the
\* timeline it names and to no other set, parent or branch; with a timeline
\* id the store lacks it still creates the character, alive and with that id
\* as current and native timeline, and leaves every timeline as it is
C35_CharacterSetsAreSeparateAfterBranch ==
    [][/\ Returned("create_timeline_branch") =>
             LET parent == last'.arg[1]
                 id == Unwrap(last'.ret)
             IN  /\ mv'.timelines[id].characters =
                       IF parent \in DOMAIN mv.timelines
                       THEN mv.timelines[parent].characters ELSE {}
                 /\ \A t \in DOMAIN mv.timelines :
                       mv'.timelines[t].characters = mv.timelines[t].characters
       /\ Returned("create_character") =>
             LET timeline == last'.arg[1]
                 id == Unwrap(last'.ret)
             IN  /\ id \in DOMAIN mv'.characters
                 /\ mv'.characters[id].alive
                 /\ mv'.characters[id].current_timeline = timeline
                 /\ mv'.characters[id].native_timeline = timeline
                 /\ DOMAIN mv'.timelines = DOMAIN mv.timelines
                 /\ timeline \notin DOMAIN mv.timelines => mv'.timelines = mv.timelines
                 /\ \A t \in DOMAIN mv.timelines :
                       mv'.timelines[t] =
                          IF t = timeline
                          THEN [mv.timelines[t] EXCEPT !.characters = @ \cup {id}]
                          ELSE mv.timelines[t]]_vars

\* C35, reached: character 0 was created in the root, the root was branched,
\* and character 1 was created in the root afterwards; the branch still
\* holds character 0 only
C35_Witness ==
    /\ last = Call("create_character", <<root_timeline>>, Some(1))
    /\ 1 \in DOMAIN mv.timelines
    /\ mv.timelines[1].parent = Some(root_timeline)
    /\ mv.timelines[root_timeline].characters = {0, 1}
    /\ mv.timelines[1].characters = {0}

\* C35, reached: character 1 was created in the branch and is in the
\* branch's set only
C35_WitnessBranch ==
    /\ last = Call("create_character", <<1>>, Some(1))
    /\ 1 \in DOMAIN mv.timelines
    /\ mv.timelines[1].parent = Some(root_timeline)
    /\ mv.timelines[root_timeline].characters = {0}
    /\ mv.timelines[1].characters = {0, 1}

\* C35, reached: a character was created with the id of a timeline that the
\* store lacks
C35_WitnessAbsent ==
    /\ last = Call("create_character", <<1>>, Some(0))
    /\ DOMAIN mv.timelines = {root_timeline}
    /\ mv.characters[0].alive
    /\ mv.characters[0].native_timeline = 1
    /\ mv.timelines[root_timeline].characters = {}

\* the parts of the store m that no mutation call rewrites are the same in n
FrameKept(m, n) ==
    /\ \A c \in DOMAIN m.characters :
          /\ c \in DOMAIN n.characters
          /\ n.characters[c].native_timeline = m.characters[c].native_timeline
          /\ n.characters[c].current_timeline = m.characters[c].current_timeline
          /\ n.characters[c].abilities = m.characters[c].abilities
    /\ \A t \in DOMAIN m.timelines :
          /\ t \in DOMAIN n.timelines
          /\ n.timelines[t].parent = m.timelines[t].parent
          /\ n.timelines[t].divergence_event = m.timelines[t].divergence_event
          /\ n.timelines[t].causality_stable = m.timelines[t].causality_stable
    /\ \A x \in DOMAIN m.memories :
          x \in DOMAIN n.memories /\ n.memories[x] = m.memories[x]
    /\ \A e \in DOMAIN m.events :
          e \in DOMAIN n.events /\ n.events[e] = m.events[e]

\* C36: no mutation call (create_character, create_timeline_branch,
\* create_witnessed_memory, record_event, decay_emotions), whether it returns
\* or panics, changes an existing character's native or current timeline or
\* its abilities, an existing timeline's parent, divergence event or
\* stability flag, a stored memory or a stored event
C36_MutationsKeepTheFrame ==
    [][FrameKept(mv, mv')]_vars

\* C36, reached: a second event was recorded, killing character 0, in a
\* store that holds a branch, a memory and an earlier event
C36_Witness ==
    /\ last.op = "record_event"
    /\ ~panicked
    /\ 0 \in DOMAIN mv.characters
    /\ ~mv.characters[0].alive
    /\ 1 \in DOMAIN mv.timelines
    /\ DOMAIN mv.memories # {}
    /\ Cardinality(DOMAIN mv.events) = 2

\* C37: a TimelineBranch effect changes nothing in the store, neither a
\* timeline nor a character; record_event never changes the set of timelines,
\* and the set of timelines changes only in a create_timeline_branch call
C37_TimelineBranchEffectDoesNothing ==
    [][/\ last'.op = "record_event" =>
             LET event == last'.arg[1]
             IN  /\ \A i \in 1..Len(event.effects) :
                       event.effects[i].kind = "TimelineBranch" =>
                          AfterEffects(mv, event, i) = AfterEffects(mv, event, i - 1)
                 /\ DOMAIN mv'.timelines = DOMAIN mv.timelines
       /\ DOMAIN mv'.timelines # DOMAIN mv.timelines =>
             /\ Returned("create_timeline_branch")
             /\ DOMAIN mv'.timelines =
                   DOMAIN mv.timelines \cup {Unwrap(last'.ret)}]_vars

\* C37, reached: an event with the effect TimelineBranch{new_timeline: 1}
\* was recorded and the store holds no timeline 1
C37_Witness ==
    /\ last.op = "record_event"
    /\ ~panicked
    /\ \E i \in 1..Len(last.arg[1].effects) :
          last.arg[1].effects[i] = TimelineBranch(1)
    /\ 0 \in DOMAIN mv.characters
    /\ DOMAIN mv.timelines = {root_timeline}

\* every character was created in the root timeline, every stored event is
\* on the root timeline and every effect names ids the store holds
RootOnly(m) ==
    /\ \A c \in DOMAIN m.characters :
          /\ m.characters[c].native_timeline = root_timeline
          /\ m.characters[c].current_timeline = root_timeline
          /\ c \in m.timelines[root_timeline].characters
    /\ \A id \in DOMAIN m.events :
          /\ m.events[id].timeline = root_timeline
          /\ \A i \in 1..Len(m.events[id].effects) :
                ~ReferencesMissingId(m, m.events[id].effects[i])

\* the liveness of character c after the death and resurrection effects of
\* the root event list, replayed in order from 'alive'
ReplayedAlive(m, c) ==
    MapGet(ReplayTimeline(m, [alive |-> [x \in DOMAIN m.characters |-> TRUE],
                              err |-> FALSE],
                          m.timelines[root_timeline].events, 1).alive,
           c, TRUE)

\* the flags that the root event list grants to character c
ReplayedFlags(m, c) ==
    LET effects == ReplayEffects(m, m.timelines[root_timeline].events, 1)
    IN  {effects[j].flag :
            j \in {k \in 1..Len(effects) :
                      /\ effects[k].kind = "KnowledgeGained"
                      /\ effects[k].character = c}}

\* C38: in a store whose characters and events are all on the root timeline
\* and whose effects name existing ids, after any sequence of record_event
\* calls that returned, each character's alive flag is the liveness that the
\* replay of the root list yields and its knowledge flags are the flags that
\* the replay grants
C38_StoredStateIsReplayOfRootList ==
    (~panicked /\ RootOnly(mv)) =>
        \A c \in DOMAIN mv.characters :
           /\ mv.characters[c].alive = ReplayedAlive(mv, c)
           /\ mv.characters[c].knowledge_flags = ReplayedFlags(mv, c)

\* C38, reached: two events on the root; the first killed and resurrected
\* character 0, the second granted it flag "a"
C38_Witness ==
    /\ ~panicked /\ RootOnly(mv)
    /\ mv.timelines[root_timeline].events = <<0, 1>>
    /\ mv.events[0].effects = <<CharacterDeath(0), CharacterResurrection(0, "Gate")>>
    /\ mv.characters[0].alive
    /\ mv.characters[0].knowledge_flags = {"a"}

\* C38, reached: character 0 is dead after an event on the root
C38_WitnessDead ==
    /\ ~panicked /\ RootOnly(mv)
    /\ ~mv.characters[0].alive
    /\ mv.characters[1].alive

\* the character maps after record_event(m, event) for every timeline and
\* participant set the event could carry instead of its own
CharactersForAnyPlace(m, event) ==
    {record_event(m, [event EXCEPT !.timeline = t, !.participants = p]).m.characters :
        t \in TimelineInputs \cup {MissingId}, p \in SUBSET {0, 1}}

\* C39: record_event applies death, resurrection, knowledge, relationship
\* and memory-transfer effects to the stored state of the character they
\* name, whatever the event's timeline and participants: the characters
\* after the call are the same for every timeline and participant set, and
\* the named character has the alive flag, flag, relationship or memory
\* that the effect sets
C39_EffectsIgnoreTimelineAndParticipants ==
    [][Returned("record_event") =>
          LET event == last'.arg[1]
          IN  /\ CharactersForAnyPlace(mv, event) = {mv'.characters}
              /\ \A i \in 1..Len(event.effects) :
                    LET e == event.effects[i]
                        after == AfterEffects(mv, event, i).characters
                    IN  CASE e.kind = "CharacterDeath" ->
                                HasCharacter(mv, e.character) =>
                                   ~after[e.character].alive
                          [] e.kind = "CharacterResurrection" ->
                                HasCharacter(mv, e.character) =>
                                   after[e.character].alive
                          [] e.kind = "KnowledgeGained" ->
                                HasCharacter(mv, e.character) =>
                                   e.flag \in after[e.character].knowledge_flags
                          [] e.kind = "RelationshipChange" ->
                                (HasCharacter(mv, e.character1)
                                   /\ HasCharacter(mv, e.character2)) =>
                                   /\ MapGet(after[e.character1].relationships,
                                             e.character2, "") = e.new_state
                                   /\ MapGet(after[e.character2].relationships,
                                             e.character1, "") = e.new_state
                          [] e.kind = "MemoryTransfer" ->
                                HasCharacter(mv, e.to) =>
                                   e.memory \in after[e.to].memories
                          [] OTHER -> TRUE]_vars

\* C39, reached: an event on the branch, without participants, killed
\* character 0, whose current timeline is the root
C39_Witness ==
    /\ last = Call("record_event",
                   <<Event(1, {}, <<CharacterDeath(0)>>, None)>>, Some(0))
    /\ mv.characters[0].current_timeline = root_timeline
    /\ ~mv.characters[0].alive
    /\ mv.characters[1].alive

\* C39, reached: an event on the root, listing only character 0, granted a
\* flag to character 1, whose current timeline is the branch
C39_WitnessFlag ==
    /\ last.op = "record_event"
    /\ last.arg[1].timeline = root_timeline
    /\ last.arg[1].participants = {0}
    /\ last.arg[1].effects = <<KnowledgeGained(1, "a")>>
    /\ mv.characters[1].current_timeline = 1
    /\ mv.characters[1].knowledge_flags = {"a"}

\* every participant of the event is a stored character whose current
\* timeline is the event's and that no stored event has killed
LivingCast(m, event) ==
    \A c \in event.participants :
        /\ HasCharacter(m, c)
        /\ m.characters[c].current_timeline = event.timeline
        /\ ~\E x \in DOMAIN m.events : Kills(m.events[x].effects, c)

\* C40: when prop_death_finality succeeds, recording an event without a
\* death effect on the current timeline of its participants, all of them
\* stored characters that were never killed, leaves prop_death_finality
\* succeeding, for characters created in the root and in a branch alike
C40_LivingParticipantPasses ==
    [][Returned("record_event") =>
          LET event == last'.arg[1]
          IN  (/\ prop_death_finality(mv) = "Ok"
               /\ \A i \in 1..Len(event.effects) :
                     event.effects[i].kind # "CharacterDeath"
               /\ LivingCast(mv, event)) =>
                 prop_death_finality(mv') = "Ok"]_vars

====
